---- MODULE Spec2Model ----
(***************************************************************************)
(* Verification model of s3finder: the adaptive (AIMD) rate limiter and    *)
(* the scanner's probe / inspect pipeline.                                 *)
(*                                                                         *)
(* Two groups of variables live side by side.  SpecLimiter drives the      *)
(* limiter alone (RecordResponse is serialised by a mutex, so one call is  *)
(* one step); Spec drives one Scan of the scanner with a stubbed prober    *)
(* whose answer is a fixed function of the bucket name.                    *)
(*                                                                         *)
(* Rates are float64 in the program and in the model: x0.5, x0.3 and x1.1  *)
(* round as the float64 multiply does.                                     *)
(***************************************************************************)
EXTENDS Integers, Sequences, FiniteSets, Bags, TLC

(***************************************************************************)
(* Bounds of the model.                                                    *)
(***************************************************************************)
\* RecordResponse calls that store a new rate, per run of the limiter
MaxAdjust == 4
\* the success counter is followed up to this value (it grows without limit
\* while the rate sits at the ceiling)
MaxSuccessCount == 102
\* longest input list handed to Scan
MaxNames == 2
\* largest probe-worker count (Config.Workers)
MaxWorkers == 2
\* inspection workers started in deep mode (10 in the program)
InspectWorkers == 1
\* channel capacities (1000, 500 and 1000 in the program), small enough that
\* senders block
NamesCap == 1
InspectCap == 1
ResultsCap == 1

\* Generate is called on every seed of at most this length over SeedAlphabet
\* (with the small knob sets), besides some longer seeds
MaxSeedLen == 3
\* IsValidBucketName is called on every string of at most this length over
\* ValidatorAlphabet, besides the long and the dotted inputs
MaxShortName == 4

(***************************************************************************)
(* Program constants of the limiter.                                       *)
(***************************************************************************)
DefaultMaxRPS == 100
ThrottleThreshold == 3
NetworkThreshold == 1
FloorRPS == 5
SuccessThreshold == 100

VARIABLES
    \* ---- AdaptiveLimiter ----
    maxRPS,          \* a.maxRPS, the ceiling
    currentRPS,      \* a.currentRPS
    consecutive429,  \* a.consecutive429, the failure counter
    successCount,    \* a.successCount
    limLimit,        \* a.limiter's refill rate
    limBurst,        \* a.limiter's burst, int(rate)
    \* ---- history of the limiter run (not program state) ----
    adjusts,         \* number of calls that stored a new rate
    zeroSeen,        \* some call so far had status 0
    trail            \* the last three calls, oldest first: the status, the rate
                     \* and the two counters as they were before the call, and
                     \* whether the call stored a new rate

VARIABLES
    \* ---- one Scan: its arguments and configuration ----
    names,           \* the names argument of Scan
    workers,         \* s.workers
    deepInspect,     \* s.deepInspect
    cancelled,       \* ctx.Done() is closed
    \* ---- channels ----
    namesChan, namesClosed,
    inspectChan, inspectClosed,
    resultsChan, resultsClosed,
    \* ---- goroutines ----
    prodPc, prodIdx, \* producer: position in the range loop
    wpc, wres,       \* probe workers: position, and the bucket / result in hand
    ipc, ires,       \* inspection workers: position, and the result in hand
    closerPc,        \* the goroutine that closes inspectChan and resultsChan
    \* ---- s.stats ----
    stats,
    \* ---- history of the scan (not program state) ----
    probed,          \* bag of names handed to processBucket
    checked,         \* bag of <<name, classification>> returned by Check
    sent             \* bag of results sent on resultsChan

limVars == <<maxRPS, currentRPS, consecutive429, successCount, limLimit,
             limBurst, adjusts, zeroSeen, trail>>

chanVars == <<namesChan, namesClosed, inspectChan, inspectClosed,
              resultsChan, resultsClosed>>

scanVars == <<names, workers, deepInspect, cancelled, chanVars, prodPc, prodIdx,
              wpc, wres, ipc, ires, closerPc, stats, probed, checked, sent>>

VARIABLES
    \* ---- one call of IsValidBucketName ----
    valPc,           \* "off", "call" (entered) or "done" (returned)
    valName,         \* the argument
    valResult,       \* the returned bool
    \* ---- one call of Engine.Generate ----
    engPc,           \* "off", "call" (entered) or "done" (returned)
    engSeed,         \* the seed argument
    engKnobs,        \* the receiver: Suffixes, Prefixes, Years, Regions
    engResult        \* the returned slice

valVars == <<valPc, valName, valResult>>

engVars == <<engPc, engSeed, engKnobs, engResult>>

VARIABLES
    \* ---- one run of the command: cfg and what it reads ----
    cfg,             \* Seed, Wordlist, Domain, AIEnabled
    wordlistData,    \* the bytes os.ReadFile returned for cfg.Wordlist
    \* ---- run and generateNames ----
    runPc,           \* position in run / generateNames
    runErr,          \* the error run returned ("" for nil)
    allNames,        \* generateNames' allNames, then run's names
    contextWords,    \* generateNames' contextWords
    reportOpened,    \* output.NewReport has created the report file
    scannerCreated,  \* scanner.New has been called
    scanNames        \* the names handed to s.Scan (<<>> before the call)

driverVars == <<cfg, wordlistData, runPc, runErr, allNames, contextWords,
                reportOpened, scannerCreated, scanNames>>

VARIABLES
    \* ---- one call of Prober.Check ----
    ckPc,            \* "off", "wait", "do", "sleep" or "done" (returned)
    ckAttempt,       \* the loop variable attempt
    ckCtxDone,       \* ctx has been cancelled
    ckSeen,          \* what client.Do gave so far: statuses, 0 for an error
    ckResp,          \* the ProbeResponse: StatusCode, Result, Error ("" for
                     \* nil, else what the error says)
    \* ---- one call of Inspector.Inspect ----
    inspPc,          \* "off", "head", "list" or "done" (returned)
    inspRegion,      \* the region argument of checkPublicAccessWithRetry
    inspRetried,     \* its retried argument
    inspErr,         \* the ListObjectsV2 errors so far, each the set of
                     \* markers its string contains
    inspListed,      \* a ListObjectsV2 call returned output
    inspResult       \* the InspectResult being filled

ckVars == <<ckPc, ckAttempt, ckCtxDone, ckSeen, ckResp>>

VARIABLES
    \* ---- goroutines calling RecordResponse, Wait and CurrentRPS at once ----
    mu,              \* a.mu: the caller holding it, 0 when free
    rpc,             \* per caller: position inside RecordResponse
    rstatus,         \* per caller: the statusCode argument
    rcur,            \* per caller: the local current
    rnew,            \* per caller: the local newRPS
    calls,           \* RecordResponse calls begun so far
    serial,          \* the limiter after the same calls made one at a time, in
                     \* the order they took a.mu (not program state)
    seen             \* what the last reader saw: CurrentRPS's value, or the
                     \* limit and burst Wait found in the bucket

recVars == <<mu, rpc, rstatus, rcur, rnew, calls, serial, seen>>

VARIABLES
    \* ---- a caller of Scanner.Stats() while the scan runs ----
    snapPc,          \* "off", "idle", the counter Stats() loads next, or
                     \* "ret" (the snapshot is being returned)
    snap             \* the Stats value being built

snapVars == <<snapPc, snap>>

VARIABLES
    \* ---- a Scanner used for more than one Scan ----
    rescans          \* Scan calls made on the Scanner after its first

VARIABLES
    \* ---- the limiter as one call of Check uses it ----
    ckTokens         \* tokens limiter.Wait has granted the call (not program
                     \* state)

VARIABLES
    \* ---- output.ReportWriter ----
    repPc,           \* "off", "open" (results are being written) or
                     \* "flushed"
    repResults,      \* r.results: the classification of each buffered result
    report           \* the Report flushJSON encoded

reportVars == <<repPc, repResults, report>>

\* the state of the later sections
moreVars == <<snapVars, rescans, ckTokens, reportVars>>

inspVars == <<inspPc, inspRegion, inspRetried, inspErr, inspListed, inspResult>>

\* the components outside the limiter and the scanner
restVars == <<valVars, engVars, driverVars, ckVars, inspVars, recVars, moreVars>>

vars == <<limVars, scanVars, restVars>>

\* no call of IsValidBucketName is in progress
ValidatorIdle == valPc = "off" /\ valName = <<>> /\ valResult = FALSE

\* no call of Generate is in progress
EngineIdle ==
    engPc = "off" /\ engSeed = <<>> /\ engKnobs = <<>> /\ engResult = <<>>

\* the command is not running
DriverIdle ==
    /\ cfg = [Seed |-> <<>>, Wordlist |-> "", Domain |-> <<>>, AIEnabled |-> FALSE]
    /\ wordlistData = <<>>
    /\ runPc = "off" /\ runErr = ""
    /\ allNames = <<>> /\ contextWords = <<>>
    /\ reportOpened = FALSE /\ scannerCreated = FALSE /\ scanNames = <<>>

\* no call of Check is in progress
CheckIdle ==
    /\ ckPc = "off" /\ ckAttempt = 0 /\ ckCtxDone = FALSE /\ ckSeen = <<>>
    /\ ckResp = [StatusCode |-> 0, Result |-> "not_found", Error |-> ""]

\* no call of Inspect is in progress
InspectIdle ==
    /\ inspPc = "off" /\ inspRegion = "" /\ inspRetried = FALSE
    /\ inspErr = <<>> /\ inspListed = FALSE
    /\ inspResult = [Region |-> "", IsPublic |-> FALSE, ACL |-> "",
                     ObjectCount |-> 0, SampleKeys |-> 0]

\* nobody is calling the limiter concurrently
RecordIdle ==
    /\ mu = 0 /\ rpc = <<>> /\ rstatus = <<>> /\ rcur = <<>> /\ rnew = <<>>
    /\ calls = 0 /\ serial = <<>> /\ seen = <<>>

\* a Stats value with every counter at 0
ZeroStats ==
    [total |-> 0, scanned |-> 0, found |-> 0, public |-> 0, private |-> 0,
     errors |-> 0, notFound |-> 0]

\* nobody is calling Stats()
SnapIdle == snapPc = "off" /\ snap = ZeroStats

\* a Report with its counts at 0
NoReport == [TotalFound |-> 0, PublicBuckets |-> 0, PrivateBuckets |-> 0]

\* no report is being written
ReportIdle == repPc = "off" /\ repResults = <<>> /\ report = NoReport

MoreIdle == SnapIdle /\ rescans = 0 /\ ckTokens = 0 /\ ReportIdle

RestIdle ==
    /\ ValidatorIdle /\ EngineIdle /\ DriverIdle /\ CheckIdle /\ InspectIdle
    /\ RecordIdle
    /\ MoreIdle

(***************************************************************************)
(* float64 arithmetic.  A positive float64 is [m, e] with value m * 2^e,   *)
(* where m is the 53-bit significand (2^52 <= m < 2^53) held as four limbs *)
(* of 14 bits, least significant first.  Products are rounded to nearest,  *)
(* ties to even, as the hardware multiply does.                            *)
(***************************************************************************)
LimbBase == 2^14

RECURSIVE Log2(_)
Log2(d) == IF d <= 1 THEN 0 ELSE 1 + Log2(d \div 2)

\* m * 2, limb by limb
Double(m) ==
    LET d1 == 2 * m[1]
        d2 == 2 * m[2] + d1 \div LimbBase
        d3 == 2 * m[3] + d2 \div LimbBase
        d4 == 2 * m[4] + d3 \div LimbBase
    IN  <<d1 % LimbBase, d2 % LimbBase, d3 % LimbBase, d4>>

RECURSIVE Normalize(_, _)
Normalize(m, e) ==
    IF m[4] >= 2^10 THEN [m |-> m, e |-> e] ELSE Normalize(Double(m), e - 1)

\* the float64 n / d, for 0 < n < 2^28 and d a power of two (exact)
F64(n, d) == Normalize(<<n % LimbBase, n \div LimbBase, 0, 0>>, -Log2(d))

\* the eight limbs of a * b: column sums, carries passed upward
Product(a, b) ==
    LET s1 == a[1] * b[1]
        s2 == a[1] * b[2] + a[2] * b[1] + s1 \div LimbBase
        s3 == a[1] * b[3] + a[2] * b[2] + a[3] * b[1] + s2 \div LimbBase
        s4 == a[1] * b[4] + a[2] * b[3] + a[3] * b[2] + a[4] * b[1]
                + s3 \div LimbBase
        s5 == a[2] * b[4] + a[3] * b[3] + a[4] * b[2] + s4 \div LimbBase
        s6 == a[3] * b[4] + a[4] * b[3] + s5 \div LimbBase
        s7 == a[4] * b[4] + s6 \div LimbBase
        s8 == s7 \div LimbBase
    IN  <<s1 % LimbBase, s2 % LimbBase, s3 % LimbBase, s4 % LimbBase,
          s5 % LimbBase, s6 % LimbBase, s7 % LimbBase, s8>>

\* m + 1, limb by limb
Increment(m) ==
    LET c1 == m[1] + 1
        c2 == m[2] + c1 \div LimbBase
        c3 == m[3] + c2 \div LimbBase
        c4 == m[4] + c3 \div LimbBase
    IN  <<c1 % LimbBase, c2 % LimbBase, c3 % LimbBase, c4>>

\* x * y in float64
FMul(x, y) ==
    LET p == Product(x.m, y.m)
        \* the product has 106 bits when bit 105 is set, 105 otherwise
        r == IF p[8] >= 2^7 THEN 11 ELSE 10
        q == [i \in 1..4 |-> p[i + 3] \div 2^r + (p[i + 4] % 2^r) * 2^(14 - r)]
        rest == p[4] % 2^r
        guard == rest >= 2^(r - 1)
        sticky == rest % 2^(r - 1) # 0 \/ p[1] # 0 \/ p[2] # 0 \/ p[3] # 0
        e == x.e + y.e + 42 + r
        up == Increment(q)
    IN  IF guard /\ (sticky \/ q[1] % 2 = 1)
        THEN IF up[4] = 2^11
             THEN [m |-> <<0, 0, 0, 2^10>>, e |-> e + 1]
             ELSE [m |-> up, e |-> e]
        ELSE [m |-> q, e |-> e]

RECURSIVE LimbsLess(_, _, _)
LimbsLess(a, b, i) ==
    IF i = 0 THEN FALSE
    ELSE IF a[i] # b[i] THEN a[i] < b[i]
    ELSE LimbsLess(a, b, i - 1)

RLess(a, b) == a.e < b.e \/ (a.e = b.e /\ LimbsLess(a.m, b.m, 4))

RLeq(a, b) == ~RLess(b, a)

\* Go's int(x) on a float64: truncation toward zero (rates are positive and
\* below 2^31 here)
Trunc(x) ==
    LET k == -x.e
        j == k \div 14
        r == k % 14
        Part[i \in 1..4] ==
            IF i < j + 1 THEN 0
            ELSE IF i = j + 1 THEN x.m[i] \div 2^r
            ELSE x.m[i] * 2^(14 * (i - j - 1) - r)
    IN  IF k >= 53 THEN 0 ELSE Part[1] + Part[2] + Part[3] + Part[4]

\* the float64 literals of RecordResponse
\* 0.5 = 0x10000000000000 * 2^-53
ThrottleFactor == F64(1, 2)
\* 0.3 = 0x13333333333333 * 2^-54
NetworkFactor == [m |-> <<13107, 3276, 13107, 1228>>, e |-> -54]
\* 1.1 = 0x1199999999999A * 2^-52
IncreaseFactor == [m |-> <<6554, 9830, 6553, 1126>>, e |-> -52]

(***************************************************************************)
(* AdaptiveLimiter                                                         *)
(***************************************************************************)
\* Ceilings handed to New, as numerator and denominator: non-positive,
\* fractional, below the floor, just above the floor, small, usual, large
CeilingInputs ==
    {<<0, 1>>, <<1, 2>>, <<2, 1>>, <<6, 1>>, <<20, 1>>, <<100, 1>>, <<500, 1>>}

\* Status codes handed to RecordResponse; 0 is a network failure
StatusInputs == {0, 200, 429, 500, 503}

IsThrottle(statusCode) == statusCode = 429 \/ statusCode = 503

\* the first branch of RecordResponse
IsFailureStatus(statusCode) == IsThrottle(statusCode) \/ statusCode = 0

DecreaseThresholdAlwaysOne(statusCode) == NetworkThreshold

DecreaseThresholdAlwaysThree(statusCode) == ThrottleThreshold

DecreaseThreshold(statusCode) ==
    IF statusCode = 0 THEN NetworkThreshold ELSE ThrottleThreshold

\* current * decreaseFactor
DecreaseProduct(current, statusCode) ==
    FMul(current, IF statusCode = 0 THEN NetworkFactor ELSE ThrottleFactor)

\* the floor as a float64
FloorRate == F64(FloorRPS, 1)

\* newRPS of the decrease branch, floor applied
DecreasedRPS(current, statusCode) ==
    LET newRPS == DecreaseProduct(current, statusCode)
    IN  IF RLess(newRPS, FloorRate) THEN FloorRate ELSE newRPS

IncreasedRPSUncapped(current, ceiling) == FMul(current, IncreaseFactor)

\* newRPS of the increase branch, ceiling applied
IncreasedRPS(current, ceiling) ==
    LET newRPS == FMul(current, IncreaseFactor)
    IN  IF RLess(ceiling, newRPS) THEN ceiling ELSE newRPS

New(requested) ==
    LET m == IF requested[1] <= 0 THEN F64(DefaultMaxRPS, 1)
             ELSE F64(requested[1], requested[2])
    IN  /\ maxRPS = m
        /\ currentRPS = m
        /\ limLimit = m
        /\ limBurst = Trunc(m)
        /\ consecutive429 = 0
        /\ successCount = 0

\* a.currentRPS.Store; a.limiter.SetLimit; a.limiter.SetBurst
StoreRate(newRPS) ==
    /\ currentRPS' = newRPS
    /\ limLimit' = newRPS
    /\ limBurst' = Trunc(newRPS)
    /\ adjusts' = adjusts + 1

KeepRate == UNCHANGED <<currentRPS, limLimit, limBurst, adjusts>>

Remember(statusCode) ==
    LET e == [status |-> statusCode, rps |-> currentRPS, fails |-> consecutive429,
              succ |-> successCount, stored |-> adjusts' # adjusts]
    IN  /\ trail' = IF Len(trail) < 3 THEN Append(trail, e)
                  ELSE Append(Tail(trail), e)
        /\ zeroSeen' = (zeroSeen \/ statusCode = 0)

RecordFailure(statusCode) ==
    /\ successCount' = 0
    /\ IF consecutive429 + 1 >= DecreaseThreshold(statusCode)
       THEN /\ StoreRate(DecreasedRPS(currentRPS, statusCode))
            /\ consecutive429' = 0
       ELSE /\ KeepRate
            /\ consecutive429' = consecutive429 + 1

RecordSuccessKeepsFailures ==
    /\ successCount < MaxSuccessCount
    /\ UNCHANGED consecutive429
    /\ IF successCount + 1 >= SuccessThreshold /\ RLess(currentRPS, maxRPS)
       THEN /\ StoreRate(IncreasedRPS(currentRPS, maxRPS))
            /\ successCount' = 0
       ELSE /\ KeepRate
            /\ successCount' = successCount + 1

RecordSuccess ==
    /\ successCount < MaxSuccessCount
    /\ consecutive429' = 0
    /\ IF successCount + 1 >= SuccessThreshold /\ RLess(currentRPS, maxRPS)
       THEN /\ StoreRate(IncreasedRPS(currentRPS, maxRPS))
            /\ successCount' = 0
       ELSE /\ KeepRate
            /\ successCount' = successCount + 1

RecordResponse(statusCode) ==
    /\ adjusts < MaxAdjust
    /\ IF IsFailureStatus(statusCode)
       THEN RecordFailure(statusCode)
       ELSE RecordSuccess
    /\ Remember(statusCode)
    /\ UNCHANGED maxRPS

CurrentRPS == currentRPS

MaxRPS == maxRPS

\* the scanner's variables, parked while the limiter is driven alone
ScanIdle ==
    /\ names = <<>> /\ workers = 0 /\ deepInspect = FALSE /\ cancelled = FALSE
    /\ namesChan = <<>> /\ namesClosed = FALSE
    /\ inspectChan = <<>> /\ inspectClosed = FALSE
    /\ resultsChan = <<>> /\ resultsClosed = FALSE
    /\ prodPc = "off" /\ prodIdx = 1
    /\ wpc = <<>> /\ wres = <<>> /\ ipc = <<>> /\ ires = <<>>
    /\ closerPc = "off"
    /\ stats = [total |-> 0, scanned |-> 0, found |-> 0, public |-> 0,
                private |-> 0, errors |-> 0, notFound |-> 0]
    /\ probed = EmptyBag /\ checked = EmptyBag /\ sent = EmptyBag

LimInit ==
    /\ \E c \in CeilingInputs : New(c)
    /\ adjusts = 0
    /\ zeroSeen = FALSE
    /\ trail = <<>>
    /\ ScanIdle
    /\ RestIdle

RecordAny ==
    \E s \in StatusInputs : RecordResponse(s) /\ UNCHANGED <<scanVars, restVars>>

LimNext == RecordAny

SpecLimiter == LimInit /\ [][LimNext]_vars

(***************************************************************************)
(* Claims about the limiter (checked under SpecLimiter).                   *)
(***************************************************************************)
LastCall == trail[Len(trail)]

Called == Len(trail) >= 1

\* C3: after any sequence of RecordResponse calls on a limiter made by New
\* with any ceiling, CurrentRPS() is at most MaxRPS().
C3_NeverAboveCeiling == RLeq(CurrentRPS, MaxRPS)

\* float64 values the claims speak of
Half == F64(1, 2)

Five == F64(5, 1)

ThreeThrottlesFromZero ==
    /\ Len(trail) = 3
    /\ \A i \in 1..3 : IsThrottle(trail[i].status)
    /\ trail[1].fails = 0

HalfOrFloor(r) ==
    LET half == FMul(r, Half) IN IF RLess(half, Five) THEN Five ELSE half

C9_SuccessResetsFailures ==
    /\ (Called /\ ~IsThrottle(LastCall.status)) => consecutive429 = 0
    /\ (Called /\ IsThrottle(LastCall.status)
            /\ (LastCall.stored \/ currentRPS # LastCall.rps)) =>
          /\ Len(trail) = 3
          /\ \A i \in 1..3 : IsThrottle(trail[i].status)
    /\ (Len(trail) >= 2 /\ ~IsFailureStatus(LastCall.status)
            /\ IsFailureStatus(trail[Len(trail) - 1].status)
            /\ trail[Len(trail) - 1].stored) =>
          currentRPS = LastCall.rps

\* two throttles, one 200, one more throttle: the counter restarted at the 200
C9_Witness ==
    /\ Len(trail) = 3
    /\ trail[1].status = 429 /\ trail[1].fails = 1
    /\ trail[2].status = 200 /\ trail[2].fails = 2
    /\ trail[3].status = 429 /\ trail[3].fails = 0
    /\ consecutive429 = 1
    /\ adjusts = 0

ThreeTenthsOrFloor(r) ==
    LET part == FMul(r, NetworkFactor) IN IF RLess(part, Five) THEN Five ELSE part

\* C10: one RecordResponse(0) stores 0.3 times the rate (not below 5) on that
\* very call, whatever the two counters were, and leaves the failure counter
\* at 0.
C10_NetworkFailureDecreasesAtOnce ==
    (Called /\ LastCall.status = 0) =>
        /\ LastCall.stored
        /\ currentRPS = ThreeTenthsOrFloor(LastCall.rps)
        /\ consecutive429 = 0

C10_Witness ==
    /\ Called
    /\ LastCall.status = 0
    /\ LastCall.fails = 2
    /\ LastCall.rps = F64(100, 1)
    /\ currentRPS = F64(30, 1)

\* the float64 next above x (x not the largest of its binade)
NextUp(x) == [m |-> Increment(x.m), e |-> x.e]

SuccessStored ==
    Called /\ ~IsFailureStatus(LastCall.status) /\ LastCall.stored

\* C11 as claimed: with ceiling 100, the hundredth success at rate 50 stores
\* exactly 55.
C11_FiftyBecomesFiftyFive ==
    (SuccessStored /\ maxRPS = F64(100, 1) /\ LastCall.rps = F64(50, 1)) =>
        currentRPS = F64(55, 1)

\* C11: while the rate is below the ceiling, a call with a status other than
\* 429/503/0 stores a new rate exactly when it is the hundredth such call in
\* a row; the new rate is the float64 product rate x 1.1, or the ceiling if
\* that is smaller, and the success counter returns to 0; a 429/503/0 call
\* returns the success counter to 0.  At rate 50 under ceiling 100 the stored
\* value is the float64 next above 55 (int() of it is 55); at rate 250 under
\* ceiling 500 it is 275.
C11_HundredthSuccessRaises ==
    /\ (Called /\ ~IsFailureStatus(LastCall.status)
            /\ RLess(LastCall.rps, maxRPS)) =>
          /\ LastCall.stored <=> LastCall.succ = 99
          /\ LastCall.stored =>
                /\ currentRPS =
                      LET raised == FMul(LastCall.rps, IncreaseFactor)
                      IN  IF RLess(maxRPS, raised) THEN maxRPS ELSE raised
                /\ successCount = 0
          /\ ~LastCall.stored =>
                /\ currentRPS = LastCall.rps
                /\ successCount = LastCall.succ + 1
    /\ (Called /\ ~IsFailureStatus(LastCall.status)
            /\ ~RLess(LastCall.rps, maxRPS)) => ~LastCall.stored
    /\ (Called /\ IsFailureStatus(LastCall.status)) => successCount = 0
    /\ (SuccessStored /\ maxRPS = F64(100, 1) /\ LastCall.rps = F64(50, 1)) =>
          /\ currentRPS = NextUp(F64(55, 1))
          /\ limBurst = 55
    /\ (SuccessStored /\ maxRPS = F64(500, 1) /\ LastCall.rps = F64(250, 1)) =>
          currentRPS = F64(275, 1)

\* ceiling 100, three throttles, a hundred successes
C11_Witness ==
    /\ SuccessStored
    /\ maxRPS = F64(100, 1)
    /\ LastCall.rps = F64(50, 1)
    /\ LastCall.succ = 99
    /\ adjusts = 2
    /\ successCount = 0

Ten == F64(10, 1)

\* C12: under a ceiling of at least 10 the rate never falls below 10 as long
\* as no call had status 0, and never below 5 in any case.
C12_ThrottleFloorTen ==
    RLeq(Ten, maxRPS) =>
        /\ ~zeroSeen => RLeq(Ten, currentRPS)
        /\ RLeq(Five, currentRPS)

(***************************************************************************)
(* Prober, as the scanner sees it: a stub that answers every request for a *)
(* bucket with the same final status.                                      *)
(***************************************************************************)
BucketNames == {"pub", "priv", "none", "err"}

\* final HTTP status the stub gives for a bucket
StubStatus(bucket) ==
    CASE bucket = "pub" -> 200
      [] bucket = "priv" -> 403
      [] bucket = "none" -> 404
      [] OTHER -> 500

BucketNotFound == "not_found"
BucketExists == "public"
BucketForbidden == "private"
BucketError == "error"

\* a switch without the case for 301 and 307
ClassifyNoRedirect(statusCode) ==
    CASE statusCode = 200 -> BucketExists
      [] statusCode = 403 -> BucketForbidden
      [] statusCode = 404 -> BucketNotFound
      [] OTHER -> BucketError

\* the status switch of Check
Classify(statusCode) ==
    CASE statusCode = 200 -> BucketExists
      [] statusCode = 403 -> BucketForbidden
      [] statusCode = 404 -> BucketNotFound
      [] statusCode = 301 \/ statusCode = 307 -> BucketForbidden
      [] OTHER -> BucketError

(***************************************************************************)
(* Scanner.Scan                                                            *)
(***************************************************************************)
RECURSIVE SeqsUpTo(_, _)
SeqsUpTo(S, n) ==
    IF n = 0 THEN {<<>>}
    ELSE LET shorter == SeqsUpTo(S, n - 1)
         IN  shorter \cup {Append(q, x) : q \in shorter, x \in S}

NameLists == SeqsUpTo(BucketNames, MaxNames)

WorkerIds == 1..MaxWorkers

InspectorIds == 1..InspectWorkers

NoResult == [bucket |-> "", probe |-> "", inspected |-> FALSE]

\* state right after Scan(ctx, names) has reset the statistics and started
\* the producer, the inspection workers (deep mode only), s.workers probe
\* workers and the closer
ScanStart(list, n, deep) ==
    /\ names = list /\ workers = n /\ deepInspect = deep
    /\ cancelled = FALSE
    /\ namesChan = <<>> /\ namesClosed = FALSE
    /\ inspectChan = <<>> /\ inspectClosed = FALSE
    /\ resultsChan = <<>> /\ resultsClosed = FALSE
    /\ prodPc = "feed" /\ prodIdx = 1
    /\ wpc = [w \in WorkerIds |-> IF w <= n THEN "recv" ELSE "off"]
    /\ wres = [w \in WorkerIds |-> NoResult]
    /\ ipc = [i \in InspectorIds |-> IF deep THEN "recv" ELSE "off"]
    /\ ires = [i \in InspectorIds |-> NoResult]
    /\ closerPc = "waitWorkers"
    /\ stats = [total |-> Len(list), scanned |-> 0, found |-> 0, public |-> 0,
                private |-> 0, errors |-> 0, notFound |-> 0]
    /\ probed = EmptyBag /\ checked = EmptyBag /\ sent = EmptyBag

\* the limiter's variables, parked while the scanner runs against the stub
LimIdle ==
    /\ New(<<DefaultMaxRPS, 1>>)
    /\ adjusts = 0
    /\ zeroSeen = FALSE
    /\ trail = <<>>

Init ==
    /\ \E list \in NameLists, n \in WorkerIds, deep \in BOOLEAN :
           ScanStart(list, n, deep)
    /\ LimIdle
    /\ RestIdle

\* ctx is cancelled (by the caller, a signal or a deadline)
Cancel ==
    /\ ~cancelled
    /\ cancelled' = TRUE
    /\ UNCHANGED <<limVars, restVars, names, workers, deepInspect, chanVars, prodPc, prodIdx,
                   wpc, wres, ipc, ires, closerPc, stats, probed, checked, sent>>

---------------------------------------------------------------------------
ProducerSendSkipsNext ==
    /\ prodPc = "feed"
    /\ prodIdx <= Len(names)
    /\ Len(namesChan) < NamesCap
    /\ namesChan' = Append(namesChan, names[prodIdx])
    /\ prodIdx' = prodIdx + 2
    /\ UNCHANGED <<limVars, restVars, names, workers, deepInspect, cancelled, namesClosed,
                   inspectChan, inspectClosed, resultsChan, resultsClosed,
                   prodPc, wpc, wres, ipc, ires, closerPc, stats, probed,
                   checked, sent>>

\* producer: case namesChan <- name
ProducerSend ==
    /\ prodPc = "feed"
    /\ prodIdx <= Len(names)
    /\ Len(namesChan) < NamesCap
    /\ namesChan' = Append(namesChan, names[prodIdx])
    /\ prodIdx' = prodIdx + 1
    /\ UNCHANGED <<limVars, restVars, names, workers, deepInspect, cancelled, namesClosed,
                   inspectChan, inspectClosed, resultsChan, resultsClosed,
                   prodPc, wpc, wres, ipc, ires, closerPc, stats, probed,
                   checked, sent>>

\* producer: case <-ctx.Done(): return, and the deferred close(namesChan)
ProducerCancelled ==
    /\ prodPc = "feed"
    /\ prodIdx <= Len(names)
    /\ cancelled
    /\ prodPc' = "done"
    /\ namesClosed' = TRUE
    /\ UNCHANGED <<limVars, restVars, names, workers, deepInspect, cancelled, namesChan,
                   inspectChan, inspectClosed, resultsChan, resultsClosed,
                   prodIdx, wpc, wres, ipc, ires, closerPc, stats, probed,
                   checked, sent>>

\* producer: the range loop is over, and the deferred close(namesChan)
ProducerFinish ==
    /\ prodPc = "feed"
    /\ prodIdx > Len(names)
    /\ prodPc' = "done"
    /\ namesClosed' = TRUE
    /\ UNCHANGED <<limVars, restVars, names, workers, deepInspect, cancelled, namesChan,
                   inspectChan, inspectClosed, resultsChan, resultsClosed,
                   prodIdx, wpc, wres, ipc, ires, closerPc, stats, probed,
                   checked, sent>>

---------------------------------------------------------------------------
Bump(st, field) == [st EXCEPT ![field] = @ + 1]

\* worker: case name, ok := <-names with ok true; processBucket starts and
\* counts the name as scanned
WorkerRecv(w) ==
    /\ wpc[w] = "recv"
    /\ namesChan # <<>>
    /\ namesChan' = Tail(namesChan)
    /\ wres' = [wres EXCEPT ![w] = [bucket |-> Head(namesChan), probe |-> "",
                                    inspected |-> FALSE]]
    /\ stats' = Bump(stats, "scanned")
    /\ probed' = probed (+) SetToBag({Head(namesChan)})
    /\ wpc' = [wpc EXCEPT ![w] = "wait"]
    /\ UNCHANGED <<limVars, restVars, names, workers, deepInspect, cancelled, namesClosed,
                   inspectChan, inspectClosed, resultsChan, resultsClosed,
                   prodPc, prodIdx, ipc, ires, closerPc, checked, sent>>

\* worker: names is closed and drained
WorkerNamesClosed(w) ==
    /\ wpc[w] = "recv"
    /\ namesChan = <<>> /\ namesClosed
    /\ wpc' = [wpc EXCEPT ![w] = "done"]
    /\ UNCHANGED <<limVars, restVars, names, workers, deepInspect, cancelled, chanVars, prodPc,
                   prodIdx, wres, ipc, ires, closerPc, stats, probed, checked,
                   sent>>

\* worker: case <-ctx.Done(): return
WorkerCancelled(w) ==
    /\ wpc[w] = "recv"
    /\ cancelled
    /\ wpc' = [wpc EXCEPT ![w] = "done"]
    /\ UNCHANGED <<limVars, restVars, names, workers, deepInspect, cancelled, chanVars, prodPc,
                   prodIdx, wres, ipc, ires, closerPc, stats, probed, checked,
                   sent>>

AfterSwitchSendsNotFound(class, deep) ==
    IF class \in {BucketExists, BucketForbidden} /\ deep THEN "enqueue" ELSE "emit"

AfterSwitchDropsErrors(class, deep) ==
    CASE class \in {BucketNotFound, BucketError} -> "recv"
      [] class \in {BucketExists, BucketForbidden} /\ deep -> "enqueue"
      [] OTHER -> "emit"

\* a switch whose deep-mode hand-over is not limited to the two found classes
AfterSwitchEnqueuesErrors(class, deep) ==
    CASE class = BucketNotFound -> "recv"
      [] deep -> "enqueue"
      [] OTHER -> "emit"

\* where processBucket goes once the counters are updated: out (nothing to
\* send), to the inspect queue, or to the results channel
AfterSwitch(class, deep) ==
    CASE class = BucketNotFound -> "recv"
      [] class \in {BucketExists, BucketForbidden} /\ deep -> "enqueue"
      [] OTHER -> "emit"

CountedWithoutNotFound(st, class) ==
    CASE class = BucketNotFound -> st
      [] class = BucketExists -> Bump(Bump(st, "found"), "public")
      [] class = BucketForbidden -> Bump(Bump(st, "found"), "private")
      [] OTHER -> Bump(st, "errors")

\* a switch whose Forbidden case adds to the public counter
CountedForbiddenAsPublic(st, class) ==
    CASE class = BucketNotFound -> Bump(st, "notFound")
      [] class \in {BucketExists, BucketForbidden} -> Bump(Bump(st, "found"), "public")
      [] OTHER -> Bump(st, "errors")

\* the counters processBucket's switch adds to
Counted(st, class) ==
    CASE class = BucketNotFound -> Bump(st, "notFound")
      [] class = BucketExists -> Bump(Bump(st, "found"), "public")
      [] class = BucketForbidden -> Bump(Bump(st, "found"), "private")
      [] OTHER -> Bump(st, "errors")

\* processBucket from the return of Check to the first channel operation
ProcessResult(w, class) ==
    /\ wres' = [wres EXCEPT ![w].probe = class]
    /\ stats' = Counted(stats, class)
    /\ checked' = checked (+) SetToBag({<<wres[w].bucket, class>>})
    /\ wpc' = [wpc EXCEPT ![w] = AfterSwitch(class, deepInspect)]

\* Check: limiter.Wait(ctx) returns nil
CheckWaitOk(w) ==
    /\ wpc[w] = "wait"
    /\ ~cancelled
    /\ wpc' = [wpc EXCEPT ![w] = "http"]
    /\ UNCHANGED <<limVars, restVars, names, workers, deepInspect, cancelled, chanVars, prodPc,
                   prodIdx, wres, ipc, ires, closerPc, stats, probed, checked,
                   sent>>

\* Check: limiter.Wait(ctx) returns the context's error; Check returns Error
CheckWaitCancelled(w) ==
    /\ wpc[w] = "wait"
    /\ cancelled
    /\ ProcessResult(w, BucketError)
    /\ UNCHANGED <<limVars, restVars, names, workers, deepInspect, cancelled, chanVars, prodPc,
                   prodIdx, ipc, ires, closerPc, probed, sent>>

\* Check: the request is answered and the status classified
CheckResponse(w) ==
    /\ wpc[w] = "http"
    /\ ProcessResult(w, Classify(StubStatus(wres[w].bucket)))
    /\ UNCHANGED <<limVars, restVars, names, workers, deepInspect, cancelled, chanVars, prodPc,
                   prodIdx, ipc, ires, closerPc, probed, sent>>

\* Check: the context is cancelled while the request is out; the request
\* fails, and so does the Wait of the retry
CheckAborted(w) ==
    /\ wpc[w] = "http"
    /\ cancelled
    /\ ProcessResult(w, BucketError)
    /\ UNCHANGED <<limVars, restVars, names, workers, deepInspect, cancelled, chanVars, prodPc,
                   prodIdx, ipc, ires, closerPc, probed, sent>>

\* a hand-over that needs an inspection worker ready to receive
WorkerEnqueueUnbuffered(w) ==
    /\ wpc[w] = "enqueue"
    /\ Len(inspectChan) < InspectCap
    /\ ~inspectClosed
    /\ \E i \in InspectorIds : ipc[i] = "recv"
    /\ inspectChan' = Append(inspectChan, wres[w])
    /\ wpc' = [wpc EXCEPT ![w] = "recv"]
    /\ UNCHANGED <<limVars, restVars, names, workers, deepInspect, cancelled, namesChan,
                   namesClosed, inspectClosed, resultsChan, resultsClosed,
                   prodPc, prodIdx, wres, ipc, ires, closerPc, stats, probed,
                   checked, sent>>

\* processBucket, deep mode: case s.inspectChan <- result
WorkerEnqueue(w) ==
    /\ wpc[w] = "enqueue"
    /\ Len(inspectChan) < InspectCap
    /\ ~inspectClosed
    /\ inspectChan' = Append(inspectChan, wres[w])
    /\ wpc' = [wpc EXCEPT ![w] = "recv"]
    /\ UNCHANGED <<limVars, restVars, names, workers, deepInspect, cancelled, namesChan,
                   namesClosed, inspectClosed, resultsChan, resultsClosed,
                   prodPc, prodIdx, wres, ipc, ires, closerPc, stats, probed,
                   checked, sent>>

\* processBucket, deep mode: case <-ctx.Done(): return
WorkerEnqueueCancelled(w) ==
    /\ wpc[w] = "enqueue"
    /\ cancelled
    /\ wpc' = [wpc EXCEPT ![w] = "recv"]
    /\ UNCHANGED <<limVars, restVars, names, workers, deepInspect, cancelled, chanVars, prodPc,
                   prodIdx, wres, ipc, ires, closerPc, stats, probed, checked,
                   sent>>

WorkerEmitOrDrop(w) ==
    /\ wpc[w] = "emit"
    /\ ~resultsClosed
    /\ IF Len(resultsChan) < ResultsCap
       THEN /\ resultsChan' = Append(resultsChan, wres[w])
            /\ sent' = sent (+) SetToBag({wres[w]})
       ELSE UNCHANGED <<resultsChan, sent>>
    /\ wpc' = [wpc EXCEPT ![w] = "recv"]
    /\ UNCHANGED <<limVars, restVars, names, workers, deepInspect, cancelled, namesChan,
                   namesClosed, inspectChan, inspectClosed, resultsClosed,
                   prodPc, prodIdx, wres, ipc, ires, closerPc, stats, probed,
                   checked>>

\* processBucket: case s.resultsChan <- result
WorkerEmit(w) ==
    /\ wpc[w] = "emit"
    /\ Len(resultsChan) < ResultsCap
    /\ ~resultsClosed
    /\ resultsChan' = Append(resultsChan, wres[w])
    /\ sent' = sent (+) SetToBag({wres[w]})
    /\ wpc' = [wpc EXCEPT ![w] = "recv"]
    /\ UNCHANGED <<limVars, restVars, names, workers, deepInspect, cancelled, namesChan,
                   namesClosed, inspectChan, inspectClosed, resultsClosed,
                   prodPc, prodIdx, wres, ipc, ires, closerPc, stats, probed,
                   checked>>

WorkerEmitIgnoresCancel(w) ==
    /\ FALSE
    /\ UNCHANGED vars

\* processBucket: case <-ctx.Done() of the final select
WorkerEmitCancelled(w) ==
    /\ wpc[w] = "emit"
    /\ cancelled
    /\ wpc' = [wpc EXCEPT ![w] = "recv"]
    /\ UNCHANGED <<limVars, restVars, names, workers, deepInspect, cancelled, chanVars, prodPc,
                   prodIdx, wres, ipc, ires, closerPc, stats, probed, checked,
                   sent>>

---------------------------------------------------------------------------
\* inspectionWorker: case result, ok := <-s.inspectChan with ok true
InspectorRecv(i) ==
    /\ ipc[i] = "recv"
    /\ inspectChan # <<>>
    /\ inspectChan' = Tail(inspectChan)
    /\ ires' = [ires EXCEPT ![i] = Head(inspectChan)]
    /\ ipc' = [ipc EXCEPT ![i] = "inspect"]
    /\ UNCHANGED <<limVars, restVars, names, workers, deepInspect, cancelled, namesChan,
                   namesClosed, inspectClosed, resultsChan, resultsClosed,
                   prodPc, prodIdx, wpc, wres, closerPc, stats, probed,
                   checked, sent>>

\* inspectionWorker: inspectChan is closed and drained; deferred Done
InspectorChanClosed(i) ==
    /\ ipc[i] = "recv"
    /\ inspectChan = <<>> /\ inspectClosed
    /\ ipc' = [ipc EXCEPT ![i] = "done"]
    /\ UNCHANGED <<limVars, restVars, names, workers, deepInspect, cancelled, chanVars, prodPc,
                   prodIdx, wpc, wres, ires, closerPc, stats, probed, checked,
                   sent>>

\* inspectionWorker: case <-ctx.Done(): return; deferred Done
InspectorCancelled(i) ==
    /\ ipc[i] = "recv"
    /\ cancelled
    /\ ipc' = [ipc EXCEPT ![i] = "done"]
    /\ UNCHANGED <<limVars, restVars, names, workers, deepInspect, cancelled, chanVars, prodPc,
                   prodIdx, wpc, wres, ires, closerPc, stats, probed, checked,
                   sent>>

\* inspectionWorker: result.Inspect = s.inspector.Inspect(ctx, bucket), which
\* returns within its own timeout
InspectorInspect(i) ==
    /\ ipc[i] = "inspect"
    /\ ires' = [ires EXCEPT ![i].inspected = TRUE]
    /\ ipc' = [ipc EXCEPT ![i] = "emit"]
    /\ UNCHANGED <<limVars, restVars, names, workers, deepInspect, cancelled, chanVars, prodPc,
                   prodIdx, wpc, wres, closerPc, stats, probed, checked, sent>>

\* inspectionWorker: case s.resultsChan <- result
InspectorEmit(i) ==
    /\ ipc[i] = "emit"
    /\ Len(resultsChan) < ResultsCap
    /\ ~resultsClosed
    /\ resultsChan' = Append(resultsChan, ires[i])
    /\ sent' = sent (+) SetToBag({ires[i]})
    /\ ipc' = [ipc EXCEPT ![i] = "recv"]
    /\ UNCHANGED <<limVars, restVars, names, workers, deepInspect, cancelled, namesChan,
                   namesClosed, inspectChan, inspectClosed, resultsClosed,
                   prodPc, prodIdx, wpc, wres, ires, closerPc, stats, probed,
                   checked>>

\* inspectionWorker: case <-ctx.Done() of the inner select
InspectorEmitCancelled(i) ==
    /\ ipc[i] = "emit"
    /\ cancelled
    /\ ipc' = [ipc EXCEPT ![i] = "recv"]
    /\ UNCHANGED <<limVars, restVars, names, workers, deepInspect, cancelled, chanVars, prodPc,
                   prodIdx, wpc, wres, ires, closerPc, stats, probed, checked,
                   sent>>

---------------------------------------------------------------------------
\* a wait that returns as soon as one probe worker has returned
ProbeWorkersDoneAny == \E w \in WorkerIds : wpc[w] = "done"

\* wg.Wait() returns
ProbeWorkersDone == \A w \in WorkerIds : wpc[w] \in {"done", "off"}

\* s.inspectWg.Wait() returns
InspectWorkersDone == \A i \in InspectorIds : ipc[i] \in {"done", "off"}

\* closer: wg.Wait(); close(s.inspectChan)
CloserCloseInspect ==
    /\ closerPc = "waitWorkers"
    /\ ProbeWorkersDone
    /\ ~inspectClosed
    /\ inspectClosed' = TRUE
    /\ closerPc' = "waitInspectors"
    /\ UNCHANGED <<limVars, restVars, names, workers, deepInspect, cancelled, namesChan,
                   namesClosed, inspectChan, resultsChan, resultsClosed,
                   prodPc, prodIdx, wpc, wres, ipc, ires, stats, probed,
                   checked, sent>>

\* closer: s.inspectWg.Wait(); close(s.resultsChan)
CloserCloseResults ==
    /\ closerPc = "waitInspectors"
    /\ InspectWorkersDone
    /\ ~resultsClosed
    /\ resultsClosed' = TRUE
    /\ closerPc' = "done"
    /\ UNCHANGED <<limVars, restVars, names, workers, deepInspect, cancelled, namesChan,
                   namesClosed, inspectChan, inspectClosed, resultsChan,
                   prodPc, prodIdx, wpc, wres, ipc, ires, stats, probed,
                   checked, sent>>

\* the caller of Scan receives one result from the returned channel
Consume ==
    /\ resultsChan # <<>>
    /\ resultsChan' = Tail(resultsChan)
    /\ UNCHANGED <<limVars, restVars, names, workers, deepInspect, cancelled, namesChan,
                   namesClosed, inspectChan, inspectClosed, resultsClosed,
                   prodPc, prodIdx, wpc, wres, ipc, ires, closerPc, stats,
                   probed, checked, sent>>

---------------------------------------------------------------------------
Producer == ProducerSend \/ ProducerCancelled \/ ProducerFinish

Worker(w) ==
    \/ WorkerRecv(w) \/ WorkerNamesClosed(w) \/ WorkerCancelled(w)
    \/ CheckWaitOk(w) \/ CheckWaitCancelled(w)
    \/ CheckResponse(w) \/ CheckAborted(w)
    \/ WorkerEnqueue(w) \/ WorkerEnqueueCancelled(w)
    \/ WorkerEmit(w) \/ WorkerEmitCancelled(w)

Inspector(i) ==
    \/ InspectorRecv(i) \/ InspectorChanClosed(i) \/ InspectorCancelled(i)
    \/ InspectorInspect(i)
    \/ InspectorEmit(i) \/ InspectorEmitCancelled(i)

Closer == CloserCloseInspect \/ CloserCloseResults

Next ==
    \/ Cancel
    \/ ProducerSend \/ ProducerCancelled \/ ProducerFinish
    \/ \E w \in WorkerIds : WorkerRecv(w)
    \/ \E w \in WorkerIds : WorkerNamesClosed(w)
    \/ \E w \in WorkerIds : WorkerCancelled(w)
    \/ \E w \in WorkerIds : CheckWaitOk(w)
    \/ \E w \in WorkerIds : CheckWaitCancelled(w)
    \/ \E w \in WorkerIds : CheckResponse(w)
    \/ \E w \in WorkerIds : CheckAborted(w)
    \/ \E w \in WorkerIds : WorkerEnqueue(w)
    \/ \E w \in WorkerIds : WorkerEnqueueCancelled(w)
    \/ \E w \in WorkerIds : WorkerEmit(w)
    \/ \E w \in WorkerIds : WorkerEmitCancelled(w)
    \/ \E i \in InspectorIds : InspectorRecv(i)
    \/ \E i \in InspectorIds : InspectorChanClosed(i)
    \/ \E i \in InspectorIds : InspectorCancelled(i)
    \/ \E i \in InspectorIds : InspectorInspect(i)
    \/ \E i \in InspectorIds : InspectorEmit(i)
    \/ \E i \in InspectorIds : InspectorEmitCancelled(i)
    \/ CloserCloseInspect \/ CloserCloseResults
    \/ Consume

Spec == Init /\ [][Next]_vars

\* the Go scheduler runs every goroutine that can take a step; the caller of
\* Scan is under no obligation to read, and nobody has to cancel
Fairness ==
    /\ WF_vars(Producer)
    /\ \A w \in WorkerIds : WF_vars(Worker(w))
    /\ \A i \in InspectorIds : WF_vars(Inspector(i))
    /\ WF_vars(Closer)

FairSpec == Spec /\ Fairness

\* the same, with a caller that keeps draining the results channel
FairDrainSpec == Spec /\ Fairness /\ WF_vars(Consume)

(***************************************************************************)
(* Claims about the scanner.                                               *)
(***************************************************************************)
RECURSIVE BagOfSeq(_)
BagOfSeq(q) == IF q = <<>> THEN EmptyBag ELSE SetToBag({Head(q)}) (+) BagOfSeq(Tail(q))

RECURSIVE SumOver(_, _)
SumOver(S, f) ==
    IF S = {} THEN 0
    ELSE LET x == CHOOSE y \in S : TRUE IN f[x] + SumOver(S \ {x}, f)

\* how many results with this bucket and classification were sent
SentAs(bucket, class) ==
    LET hits == {r \in BagToSet(sent) : r.bucket = bucket /\ r.probe = class}
    IN  SumOver(hits, [r \in hits |-> CopiesIn(r, sent)])

\* <<bucket, classification>> pairs of the results sent, with multiplicity
SentPairs ==
    LET pairs == {<<r.bucket, r.probe>> : r \in BagToSet(sent)}
    IN  [p \in pairs |-> SentAs(p[1], p[2])]

Surfaced(pairs) == {p \in pairs : p[2] # BucketNotFound}

AllExited ==
    /\ prodPc = "done"
    /\ ProbeWorkersDone
    /\ InspectWorkersDone
    /\ closerPc = "done"

InChannel(ch, r) == \E k \in 1..Len(ch) : ch[k] = r

\* C1: no result classified NotFound is ever sent on the results channel
\* (nor queued for inspection), whatever the worker count, the mode and the
\* cancellation.
C1_NoNotFoundSent ==
    /\ \A r \in BagToSet(sent) : r.probe # BucketNotFound
    /\ \A k \in 1..Len(resultsChan) : resultsChan[k].probe # BucketNotFound
    /\ \A k \in 1..Len(inspectChan) : inspectChan[k].probe # BucketNotFound

C1_Witness ==
    /\ resultsClosed
    /\ CopiesIn(<<"none", BucketNotFound>>, checked) = 1
    /\ sent # EmptyBag

\* C2: once the results channel is closed, found = public + private and
\* scanned = found + errors + not_found, cancelled or not.
C2_CountersAddUpAtCompletion ==
    resultsClosed =>
        /\ stats.found = stats.public + stats.private
        /\ stats.scanned = stats.found + stats.errors + stats.notFound

C2_Witness ==
    /\ resultsClosed
    /\ cancelled
    /\ stats.notFound = 1
    /\ stats.errors = 1
    /\ stats.scanned = 2

\* C4, as claimed: when the results channel is closed, every name classified
\* Exists, Forbidden or Error has been sent on it exactly once, in every
\* execution.
C4_EverySurfacedSentOnce ==
    resultsClosed =>
        \A p \in Surfaced(BagToSet(checked)) : SentAs(p[1], p[2]) = CopiesIn(p, checked)

\* C4, amended: no classified name is ever sent more often than it was
\* classified, and when the results channel is closed without the context
\* having been cancelled, every name classified Exists, Forbidden or Error
\* has been sent exactly once.
C4_SentOnceUnlessCancelled ==
    /\ \A p \in DOMAIN SentPairs : SentPairs[p] <= CopiesIn(p, checked)
    /\ (resultsClosed /\ ~cancelled) =>
          \A p \in Surfaced(BagToSet(checked)) : SentAs(p[1], p[2]) = CopiesIn(p, checked)

C4_Witness ==
    /\ resultsClosed /\ ~cancelled
    /\ deepInspect
    /\ SentAs("pub", BucketExists) = 1
    /\ SentAs("err", BucketError) = 1
    /\ \E r \in BagToSet(sent) : r.inspected

\* C5: once the context is cancelled, the producer, every probe worker, every
\* inspection worker and the closer exit and the results channel is closed,
\* even if the caller never reads again.
C5_CancelUnwinds == cancelled ~> (AllExited /\ resultsClosed)

\* cancelled while a worker was blocked sending on a full results channel
C5_Witness ==
    /\ cancelled
    /\ AllExited /\ resultsClosed
    /\ Len(resultsChan) = ResultsCap
    /\ BagCardinality(checked) > BagCardinality(sent)

\* C6: with the context never cancelled and a caller that keeps reading, no
\* name is ever probed more often than it occurs in the input, and the scan
\* reaches a state where the results channel is closed and every element of
\* the input has been probed exactly once (nothing sent for an empty input).
C6_EveryNameProbedOnce ==
    /\ [](\A b \in BucketNames : CopiesIn(b, probed) <= CopiesIn(b, BagOfSeq(names)))
    /\ <>(\/ cancelled
          \/ /\ resultsClosed
             /\ probed = BagOfSeq(names)
             /\ (names = <<>> => sent = EmptyBag))

C6_Witness ==
    /\ resultsClosed /\ ~cancelled
    /\ workers = 2
    /\ Len(names) = 2
    /\ probed = BagOfSeq(names)

\* what the stub makes of the input list: one <<name, classification>> per
\* element that is not classified NotFound
ExpectedPairs ==
    LET all == BagOfSeq(names)
        kept == {b \in BagToSet(all) : Classify(StubStatus(b)) # BucketNotFound}
        pairs == {<<b, Classify(StubStatus(b))>> : b \in kept}
    IN  [p \in pairs |-> CopiesIn(p[1], all)]

\* C7: an uncancelled scan of a fixed list against the stub has sent, when it
\* completes, the same multiset of (name, classification) results for every
\* worker count and every interleaving.
C7_SameResultsForAnyWorkerCount ==
    (resultsClosed /\ ~cancelled) => SentPairs = ExpectedPairs

C7_Witness ==
    /\ resultsClosed /\ ~cancelled
    /\ workers = 2
    /\ names = <<"priv", "priv">>
    /\ SentAs("priv", BucketForbidden) = 2

(***************************************************************************)
(* Strings.  A Go string is a sequence of one-character strings; the       *)
(* helpers below are the functions of package strings that the name        *)
(* generator uses.                                                         *)
(***************************************************************************)
UpperLetters ==
    <<"A", "B", "C", "D", "E", "F", "G", "H", "I", "J", "K", "L", "M",
      "N", "O", "P", "Q", "R", "S", "T", "U", "V", "W", "X", "Y", "Z">>

LowerLetters ==
    <<"a", "b", "c", "d", "e", "f", "g", "h", "i", "j", "k", "l", "m",
      "n", "o", "p", "q", "r", "s", "t", "u", "v", "w", "x", "y", "z">>

Digits == {"0", "1", "2", "3", "4", "5", "6", "7", "8", "9"}

Range(f) == {f[i] : i \in DOMAIN f}

ToLowerRune(c) ==
    IF c \in Range(UpperLetters)
    THEN LowerLetters[CHOOSE i \in 1..26 : UpperLetters[i] = c]
    ELSE c

\* strings.ToLower
ToLower(s) == [i \in 1..Len(s) |-> ToLowerRune(s[i])]

IsSpace(c) == c \in {" ", "\t", "\n", "\r"}

\* strings.TrimSpace
RECURSIVE TrimSpace(_)
TrimSpace(s) ==
    IF s = <<>> THEN s
    ELSE IF IsSpace(s[1]) THEN TrimSpace(Tail(s))
    ELSE IF IsSpace(s[Len(s)]) THEN TrimSpace(SubSeq(s, 1, Len(s) - 1))
    ELSE s

\* strings.Contains
Contains(s, sub) ==
    \E i \in 1..(Len(s) - Len(sub) + 1) : SubSeq(s, i, i + Len(sub) - 1) = sub

\* strings.Split for a one-character separator
RECURSIVE Split(_, _)
Split(s, sep) ==
    IF \A i \in 1..Len(s) : s[i] # sep THEN <<s>>
    ELSE LET k == CHOOSE i \in 1..Len(s) :
                     s[i] = sep /\ \A j \in 1..(i - 1) : s[j] # sep
         IN  <<SubSeq(s, 1, k - 1)>> \o Split(SubSeq(s, k + 1, Len(s)), sep)

\* strings.ReplaceAll for one-character strings
ReplaceAll(s, old, new) == [i \in 1..Len(s) |-> IF s[i] = old THEN new ELSE s[i]]

(***************************************************************************)
(* permutation.IsValidBucketName                                           *)
(***************************************************************************)
\* [a-z0-9]
IsLowerAlnum(c) == c \in Range(LowerLetters) \/ c \in Digits

\* validBucketName.MatchString: ^[a-z0-9][a-z0-9.-]{1,61}[a-z0-9]$
MatchString(name) ==
    /\ Len(name) >= 3
    /\ Len(name) <= 63
    /\ IsLowerAlnum(name[1])
    /\ \A i \in 2..(Len(name) - 1) : IsLowerAlnum(name[i]) \/ name[i] \in {".", "-"}
    /\ IsLowerAlnum(name[Len(name)])

isIPAddress(s) ==
    LET parts == Split(s, ".")
    IN  /\ Len(parts) = 4
        /\ \A p \in 1..4 :
              /\ Len(parts[p]) # 0
              /\ Len(parts[p]) <= 3
              /\ \A i \in 1..Len(parts[p]) : parts[p][i] \in Digits

IsValidBucketNameNoIPCheck(name) ==
    /\ ~(Len(name) < 3 \/ Len(name) > 63)
    /\ ~Contains(name, <<".", ".">>)
    /\ MatchString(name)

IsValidBucketName(name) ==
    /\ ~(Len(name) < 3 \/ Len(name) > 63)
    /\ ~isIPAddress(name)
    /\ ~Contains(name, <<".", ".">>)
    /\ MatchString(name)

\* ---- inputs of the call ----
ValidatorAlphabet == {"a", "1", ".", "-", "A", "_"}

ShortNames ==
    UNION {[1..n -> ValidatorAlphabet] : n \in 0..MaxShortName}

\* names around the length limits: a first character, a filler, a last one
LongNames ==
    {[i \in 1..n |-> IF i = 1 THEN first ELSE IF i = n THEN last ELSE mid] :
        n \in {2, 3, 62, 63, 64, 65},
        first \in {"a", "-"}, mid \in {"a", "-", "_"}, last \in {"a", "1", "."}}

RECURSIVE Join(_, _)
Join(parts, sep) ==
    IF Len(parts) = 0 THEN <<>>
    ELSE IF Len(parts) = 1 THEN parts[1]
    ELSE parts[1] \o <<sep>> \o Join(Tail(parts), sep)

DottedGroups == {<<>>, <<"1">>, <<"2", "5", "5">>, <<"1", "2", "3", "4">>, <<"a">>}

\* three to five groups joined by dots
DottedNames ==
    {Join(g, ".") : g \in UNION {[1..k -> DottedGroups] : k \in 3..5}}

ExampleNames ==
    {<<"1", ".", "2", ".", "3", ".", "4">>,
     <<"1", ".", "2", ".", "3", ".", "a">>,
     <<"1", ".", "2", ".", "3", ".", "4", ".", "5">>}

ValidatorInputs == ShortNames \cup LongNames \cup DottedNames \cup ExampleNames

\* ---- the call ----
ValidatorStart(name) ==
    valPc = "call" /\ valName = name /\ valResult = FALSE

IsValidBucketNameReturn ==
    /\ valPc = "call"
    /\ valResult' = IsValidBucketName(valName)
    /\ valPc' = "done"
    /\ UNCHANGED <<limVars, scanVars, valName, engVars, driverVars, ckVars, inspVars,
                   recVars, moreVars>>

ValidatorInit ==
    /\ \E name \in ValidatorInputs : ValidatorStart(name)
    /\ LimIdle
    /\ ScanIdle
    /\ EngineIdle
    /\ DriverIdle
    /\ CheckIdle
    /\ InspectIdle
    /\ RecordIdle
    /\ MoreIdle

ValidatorNext == IsValidBucketNameReturn

SpecValidator == ValidatorInit /\ [][ValidatorNext]_vars

(***************************************************************************)
(* Claims about IsValidBucketName (checked under SpecValidator).           *)
(***************************************************************************)
\* ^[a-z0-9][a-z0-9.-]{1,61}[a-z0-9]$, read as three pieces
FitsPattern(s) ==
    /\ Len(s) - 2 \in 1..61
    /\ s[1] \in Range(LowerLetters) \cup Digits
    /\ s[Len(s)] \in Range(LowerLetters) \cup Digits
    /\ \A i \in 2..(Len(s) - 1) :
          s[i] \in Range(LowerLetters) \cup Digits \cup {".", "-"}

HasDoubleDot(s) == \E i \in 1..(Len(s) - 1) : s[i] = "." /\ s[i + 1] = "."

\* four groups of one to three digits, separated by three dots
FourDigitGroups(s) ==
    LET dots == {i \in 1..Len(s) : s[i] = "."}
        ends == dots \cup {0, Len(s) + 1}
        After(x) == CHOOSE y \in ends : y > x /\ \A z \in ends : z > x => y <= z
    IN  /\ Cardinality(dots) = 3
        /\ \A i \in (1..Len(s)) \ dots : s[i] \in Digits
        /\ \A x \in dots \cup {0} : After(x) - x - 1 \in 1..3

Returned(name) == valPc = "done" /\ valName = name

\* C16: IsValidBucketName accepts a string exactly when its length is 3..63,
\* it matches the bucket-name pattern, it has no two dots in a row and it is
\* not four dot-separated groups of one to three digits; 1.2.3.4 is rejected,
\* 1.2.3.a and 1.2.3.4.5 are accepted, lengths 2 and 64 are rejected and
\* lengths 3 and 63 accepted.
C16_ValidatorAcceptsExactly ==
    /\ valPc = "done" =>
          (valResult <=> /\ Len(valName) \in 3..63
                         /\ FitsPattern(valName)
                         /\ ~HasDoubleDot(valName)
                         /\ ~FourDigitGroups(valName))
    /\ Returned(<<"1", ".", "2", ".", "3", ".", "4">>) => ~valResult
    /\ Returned(<<"1", ".", "2", ".", "3", ".", "a">>) => valResult
    /\ Returned(<<"1", ".", "2", ".", "3", ".", "4", ".", "5">>) => valResult
    /\ \A n \in {2, 3, 63, 64} :
          Returned([i \in 1..n |-> "a"]) => (valResult <=> n \in {3, 63})

C16_Witness ==
    /\ Returned(<<"1", ".", "2", ".", "3", ".", "4">>)
    /\ ~valResult

(***************************************************************************)
(* permutation.Engine                                                      *)
(***************************************************************************)
DefaultSuffixes ==
    <<<<>>, <<"-", "d", "e", "v">>, <<"-", "p", "r", "o", "d">>,
      <<"-", "s", "t", "a", "g", "i", "n", "g">>,
      <<"-", "b", "a", "c", "k", "u", "p">>,
      <<"-", "b", "a", "c", "k", "u", "p", "s">>,
      <<"-", "l", "o", "g", "s">>, <<"-", "a", "s", "s", "e", "t", "s">>,
      <<"-", "i", "n", "t", "e", "r", "n", "a", "l">>,
      <<"-", "p", "u", "b", "l", "i", "c">>,
      <<"-", "p", "r", "i", "v", "a", "t", "e">>,
      <<"-", "d", "a", "t", "a">>, <<"-", "f", "i", "l", "e", "s">>,
      <<"-", "m", "e", "d", "i", "a">>,
      <<"-", "s", "t", "a", "t", "i", "c">>, <<"-", "c", "d", "n">>,
      <<"-", "a", "p", "i">>, <<"-", "w", "e", "b">>,
      <<"-", "a", "p", "p">>, <<"-", "t", "e", "s", "t">>,
      <<"-", "t", "e", "m", "p">>,
      <<"-", "a", "r", "c", "h", "i", "v", "e">>, <<"-", "o", "l", "d">>,
      <<"-", "n", "e", "w">>, <<"-", "v", "2">>,
      <<"-", "b", "e", "t", "a">>>>

DefaultPrefixes ==
    <<<<>>, <<"d", "e", "v", "-">>, <<"p", "r", "o", "d", "-">>,
      <<"s", "t", "a", "g", "i", "n", "g", "-">>,
      <<"b", "a", "c", "k", "u", "p", "-">>, <<"t", "e", "s", "t", "-">>,
      <<"i", "n", "t", "e", "r", "n", "a", "l", "-">>,
      <<"p", "u", "b", "l", "i", "c", "-">>,
      <<"p", "r", "i", "v", "a", "t", "e", "-">>,
      <<"t", "e", "m", "p", "-">>, <<"o", "l", "d", "-">>>>

DefaultYears ==
    <<<<>>, <<"-", "2", "0", "2", "2">>, <<"-", "2", "0", "2", "3">>,
      <<"-", "2", "0", "2", "4">>, <<"-", "2", "0", "2", "5">>,
      <<"-", "2", "2">>, <<"-", "2", "3">>, <<"-", "2", "4">>,
      <<"-", "2", "5">>>>

DefaultRegions ==
    <<<<>>, <<"-", "u", "s", "-", "e", "a", "s", "t", "-", "1">>,
      <<"-", "u", "s", "-", "e", "a", "s", "t", "-", "2">>,
      <<"-", "u", "s", "-", "w", "e", "s", "t", "-", "1">>,
      <<"-", "u", "s", "-", "w", "e", "s", "t", "-", "2">>,
      <<"-", "e", "u", "-", "w", "e", "s", "t", "-", "1">>,
      <<"-", "e", "u", "-", "w", "e", "s", "t", "-", "2">>,
      <<"-", "e", "u", "-", "c", "e", "n", "t", "r", "a", "l", "-", "1">>,
      <<"-", "a", "p", "-", "s", "o", "u", "t", "h", "-", "1">>,
      <<"-", "a", "p", "-", "n", "o", "r", "t", "h", "e", "a", "s", "t", "-", "1">>,
      <<"-", "a", "p", "-", "s", "o", "u", "t", "h", "e", "a", "s", "t", "-", "1">>>>

\* Default()
Default ==
    [Suffixes |-> DefaultSuffixes, Prefixes |-> DefaultPrefixes,
     Separators |-> <<"-", ".">>, Years |-> DefaultYears,
     Regions |-> DefaultRegions]

\* the closure add of Generate, without its validity test
AddUnchecked(results, name) ==
    IF \E i \in 1..Len(results) : results[i] = name THEN results
    ELSE Append(results, name)

\* the closure add of Generate: results after add(name)
Add(results, name) ==
    IF (\E i \in 1..Len(results) : results[i] = name) \/ ~IsValidBucketName(name)
    THEN results
    ELSE Append(results, name)

\* add called on each entry of a list of candidates, in order.  The list is
\* halved, first half first, and the results so far are measured before the
\* second half is entered, which keeps the evaluation shallow.
RECURSIVE AddAll(_, _)
AddAll(results, candidates) ==
    LET n == Len(candidates)
        first == AddAll(results, SubSeq(candidates, 1, n \div 2))
    IN  IF n = 0 THEN results
        ELSE IF n = 1 THEN Add(results, candidates[1])
        ELSE IF Len(first) >= 0
             THEN AddAll(first, SubSeq(candidates, (n \div 2) + 1, n))
             ELSE first

\* a doubly nested range loop run flat: the outer and the inner index of
\* iteration k, the inner list having m entries
OuterIndex(k, m) == ((k - 1) \div m) + 1

InnerIndex(k, m) == ((k - 1) % m) + 1

NoCandidates(e, seed) == <<>>

\* the range loops of Generate, each as the list of the names it hands to add
PrefixSeed(e, seed) == [k \in 1..Len(e.Prefixes) |-> e.Prefixes[k] \o seed]

SeedSuffix(e, seed) == [k \in 1..Len(e.Suffixes) |-> seed \o e.Suffixes[k]]

PrefixSeedSuffix(e, seed) ==
    LET m == Len(e.Suffixes)
    IN  [k \in 1..(Len(e.Prefixes) * m) |->
            e.Prefixes[OuterIndex(k, m)] \o seed \o e.Suffixes[InnerIndex(k, m)]]

SeedYear(e, seed) == [k \in 1..Len(e.Years) |-> seed \o e.Years[k]]

SeedSuffixYear(e, seed) ==
    LET m == Len(e.Years)
    IN  [k \in 1..(Len(e.Suffixes) * m) |->
            seed \o e.Suffixes[OuterIndex(k, m)] \o e.Years[InnerIndex(k, m)]]

SeedRegion(e, seed) == [k \in 1..Len(e.Regions) |-> seed \o e.Regions[k]]

SeedSuffixRegion(e, seed) ==
    LET m == Len(e.Regions)
    IN  [k \in 1..(Len(e.Suffixes) * m) |->
            seed \o e.Suffixes[OuterIndex(k, m)] \o e.Regions[InnerIndex(k, m)]]

\* the separator loop: for every separator other than "-" whose variant
\* differs from the seed, the variant and the variant with every suffix
RECURSIVE SeparatorVariants(_, _, _)
SeparatorVariants(e, seed, k) ==
    IF k > Len(e.Separators) THEN <<>>
    ELSE LET sep == e.Separators[k]
             variant == ReplaceAll(seed, "-", sep)
             own == IF sep # "-" /\ variant # seed
                    THEN <<variant>> \o SeedSuffix(e, variant)
                    ELSE <<>>
         IN  own \o SeparatorVariants(e, seed, k + 1)

\* the names Generate hands to add, in the order of the calls
Candidates(e, seed) ==
    <<seed>> \o PrefixSeed(e, seed) \o SeedSuffix(e, seed)
        \o PrefixSeedSuffix(e, seed)
        \o SeedYear(e, seed) \o SeedSuffixYear(e, seed)
        \o SeedRegion(e, seed) \o SeedSuffixRegion(e, seed)
        \o SeparatorVariants(e, seed, 1)

\* Engine.Generate
Generate(e, rawSeed) ==
    LET seed == ToLower(TrimSpace(rawSeed))
    IN  IF seed = <<>> THEN <<>> ELSE AddAll(<<>>, Candidates(e, seed))

\* ---- inputs of the call ----
SeedAlphabet == {"a", "B", "-", " ", "_"}

ShortSeeds == UNION {[1..n -> SeedAlphabet] : n \in 0..MaxSeedLen}

\* seeds handed to the default engine
DefaultSeeds ==
    {<<"a", "c", "m", "e">>, <<"A", "C", "M", "E">>, <<" ", "A", "c", "m", "e", " ">>,
     <<"a", "c", "m", "e", "-", "c", "o", "r", "p">>, <<"a", "b">>, <<" ">>,
     <<"a", "c", "m", "e", "_", "d", "e", "v">>}

\* knob sets with repeated, upper-case, empty and ill-formed entries
SmallKnobs ==
    {[Suffixes |-> <<<<>>, <<"-", "d">>, <<"-", "d">>, <<"-", "D">>, <<".">>>>,
      Prefixes |-> <<<<>>, <<"d", "-">>, <<".">>>>,
      Separators |-> <<"-", ".">>,
      Years |-> <<<<>>, <<"-", "2", "2">>>>,
      Regions |-> <<<<"-", "d">>, <<"_", "x">>>>],
     [Suffixes |-> <<<<"a">>, <<"a", "a">>>>,
      Prefixes |-> <<<<"a">>, <<"a", "a">>>>,
      Separators |-> <<".", "_", "-">>,
      Years |-> <<>>,
      Regions |-> <<<<"a", "a", "a">>>>],
     [Suffixes |-> <<>>, Prefixes |-> <<>>, Separators |-> <<>>,
      Years |-> <<>>, Regions |-> <<>>]}

EngineInputs ==
    (SmallKnobs \X ShortSeeds) \cup ({Default} \X DefaultSeeds)

\* ---- the call ----
EngineStart(e, seed) ==
    engPc = "call" /\ engKnobs = e /\ engSeed = seed /\ engResult = <<>>

GenerateReturn ==
    /\ engPc = "call"
    /\ engResult' = Generate(engKnobs, engSeed)
    /\ engPc' = "done"
    /\ UNCHANGED <<limVars, scanVars, valVars, engSeed, engKnobs, driverVars,
                   ckVars, inspVars, recVars, moreVars>>

EngineInit ==
    /\ \E in \in EngineInputs : EngineStart(in[1], in[2])
    /\ LimIdle
    /\ ScanIdle
    /\ ValidatorIdle
    /\ DriverIdle
    /\ CheckIdle
    /\ InspectIdle
    /\ RecordIdle
    /\ MoreIdle

EngineNext == GenerateReturn

SpecEngine == EngineInit /\ [][EngineNext]_vars

(***************************************************************************)
(* Claims about Generate (checked under SpecEngine).                       *)
(***************************************************************************)
NoDuplicates(list) ==
    \A i, j \in 1..Len(list) : list[i] = list[j] => i = j

Has(list, name) == \E i \in 1..Len(list) : list[i] = name

\* C18: for seed acme under the default knobs the result contains acme,
\* acme-dev, acme-prod, dev-acme, acme-backup, acme-2024 and acme-us-east-1,
\* contains neither ACME nor acme_dev, and has at least 700 entries.
C18_AcmeUnderDefaults ==
    (engPc = "done" /\ engKnobs = Default /\ engSeed = <<"a", "c", "m", "e">>) =>
        /\ Has(engResult, <<"a", "c", "m", "e">>)
        /\ Has(engResult, <<"a", "c", "m", "e", "-", "d", "e", "v">>)
        /\ Has(engResult, <<"a", "c", "m", "e", "-", "p", "r", "o", "d">>)
        /\ Has(engResult, <<"d", "e", "v", "-", "a", "c", "m", "e">>)
        /\ Has(engResult, <<"a", "c", "m", "e", "-", "b", "a", "c", "k", "u", "p">>)
        /\ Has(engResult, <<"a", "c", "m", "e", "-", "2", "0", "2", "4">>)
        /\ Has(engResult, <<"a", "c", "m", "e", "-", "u", "s", "-", "e", "a", "s", "t",
                            "-", "1">>)
        /\ ~Has(engResult, <<"A", "C", "M", "E">>)
        /\ ~Has(engResult, <<"a", "c", "m", "e", "_", "d", "e", "v">>)
        /\ Len(engResult) >= 700

C18_Witness ==
    /\ engPc = "done"
    /\ engKnobs = Default
    /\ engSeed = <<"a", "c", "m", "e">>
    /\ Len(engResult) = 754

(***************************************************************************)
(* The command: run and generateNames (cmd/s3finder/main.go) with          *)
(* config.LoadWordlist.  What the command reads from outside (the CT log   *)
(* answer, the wordlist file, the AI answer, whether the report file can   *)
(* be created) is chosen at the step that reads it.                        *)
(***************************************************************************)
\* ---- inputs ----
SeedFlags == {<<>>, <<"a", "c", "m", "e">>, <<"_", "x">>}

WordlistFlags == {"", "words.txt"}

DomainFlags == {<<>>, <<"e", "x", ".", "i", "o">>}

\* os.ReadFile: an error, or the bytes of the file
WordlistFiles ==
    {[ok |-> FALSE, data |-> <<>>],
     [ok |-> TRUE, data |-> <<>>],
     [ok |-> TRUE, data |-> <<"b", "a", "c", "k", "u", "p", "\n", "l", "o", "g", "s", "\n">>],
     [ok |-> TRUE, data |-> <<"B", "a", "c", "k", "u", "p", "\r", "\n", " ", "l", "o", "g", "s", " ", "\n">>],
     [ok |-> TRUE, data |-> <<"a", "b", "\n", "a", "b">>]}

\* FetchSubdomains: an error, or subdomains of the domain (lower-case, each
\* one ending in "." + domain, as extractSubdomains leaves them)
CTAnswers ==
    {[ok |-> FALSE, subdomains |-> <<>>],
     [ok |-> TRUE, subdomains |-> <<>>],
     [ok |-> TRUE, subdomains |-> <<<<"a", "p", "i", ".", "e", "x", ".", "i", "o">>>>],
     [ok |-> TRUE, subdomains |-> <<<<"m", "y", "_", "a", "p", "p", ".", "e", "x", ".", "i", "o">>, <<"d", "e", "v", "-", "a", "p", "i", ".", "e", "x", ".", "i", "o">>>>]}

\* generator.Generate: an error, or names as parseBucketNames leaves them
\* (lower-case, no blanks, 3 to 63 bytes)
AIAnswers ==
    {[ok |-> FALSE, names |-> <<>>],
     [ok |-> TRUE, names |-> <<<<"a", "c", "m", "e", "-", "a", "i">>>>],
     [ok |-> TRUE, names |-> <<<<"a", "c", "m", "e", "_", "d", "e", "v">>, <<"a", "c", "m", "e">>>>]}

\* ---- config.LoadWordlist ----
RECURSIVE SplitLines(_, _, _)
SplitLines(data, current, words) ==
    IF data = <<>>
    THEN IF Len(current) > 0 THEN Append(words, current) ELSE words
    ELSE IF Head(data) = "\n" \/ Head(data) = "\r"
    THEN IF Len(current) > 0
         THEN SplitLines(Tail(data), <<>>, Append(words, current))
         ELSE SplitLines(Tail(data), current, words)
    ELSE SplitLines(Tail(data), Append(current, Head(data)), words)

LoadWordlist(data) == SplitLines(data, <<>>, <<>>)

\* ---- generateNames ----
\* the closure add of generateNames, for one name
AddName(all, name) ==
    IF \E i \in 1..Len(all) : all[i] = name THEN all ELSE Append(all, name)

\* the closure add of generateNames (the list is halved, first half first,
\* as in AddAll)
RECURSIVE AddNames(_, _)
AddNames(all, list) ==
    LET n == Len(list)
        first == AddNames(all, SubSeq(list, 1, n \div 2))
    IN  IF n = 0 THEN all
        ELSE IF n = 1 THEN AddName(all, list[1])
        ELSE IF Len(first) >= 0
             THEN AddNames(first, SubSeq(list, (n \div 2) + 1, n))
             ELSE first

\* strings.TrimSuffix
TrimSuffix(s, suffix) ==
    IF Len(s) >= Len(suffix) /\ SubSeq(s, Len(s) - Len(suffix) + 1, Len(s)) = suffix
    THEN SubSeq(s, 1, Len(s) - Len(suffix))
    ELSE s

\* strings.FieldsFunc with the separators '.' and '-'
RECURSIVE FieldsFunc(_, _, _)
FieldsFunc(s, current, fields) ==
    IF s = <<>>
    THEN IF Len(current) > 0 THEN Append(fields, current) ELSE fields
    ELSE IF Head(s) = "." \/ Head(s) = "-"
    THEN IF Len(current) > 0
         THEN FieldsFunc(Tail(s), <<>>, Append(fields, current))
         ELSE FieldsFunc(Tail(s), current, fields)
    ELSE FieldsFunc(Tail(s), Append(current, Head(s)), fields)

\* the keys of wordMap
WordMap(subdomains, domain) ==
    UNION {{part \in Range(FieldsFunc(TrimSuffix(subdomains[i], <<".">> \o domain),
                                      <<>>, <<>>)) : Len(part) > 2} :
           i \in 1..Len(subdomains)}

\* the orders in which a range over a map can visit its keys
RangeOrders(keys) ==
    {order \in [1..Cardinality(keys) -> keys] : Range(order) = keys}

\* add(engine.Generate(word)) for each word, in the order of the range
RECURSIVE AddGenerated(_, _)
AddGenerated(all, words) ==
    IF words = <<>> THEN all
    ELSE AddGenerated(AddNames(all, Generate(Default, Head(words))), Tail(words))

NoInputSource ==
    cfg.Seed = <<>> /\ cfg.Wordlist = "" /\ cfg.Domain = <<>> /\ ~cfg.AIEnabled

DriverStart(seed, wordlist, domain, ai) ==
    /\ cfg = [Seed |-> seed, Wordlist |-> wordlist, Domain |-> domain,
              AIEnabled |-> ai]
    /\ wordlistData = <<>>
    /\ runPc = "validate" /\ runErr = ""
    /\ allNames = <<>> /\ contextWords = <<>>
    /\ reportOpened = FALSE /\ scannerCreated = FALSE /\ scanNames = <<>>

\* run: the check of the input sources
RunValidate ==
    /\ runPc = "validate"
    /\ IF NoInputSource
       THEN /\ runErr' = "at least one input source is required"
            /\ runPc' = "returned"
       ELSE /\ runErr' = runErr
            /\ runPc' = "ct"
    /\ UNCHANGED <<limVars, scanVars, valVars, engVars, ckVars, inspVars, recVars, moreVars, cfg, wordlistData, allNames,
                   contextWords, reportOpened, scannerCreated, scanNames>>

\* generateNames, 1: CT log subdomain discovery
GenerateFromCT ==
    /\ runPc = "ct"
    /\ IF cfg.Domain = <<>>
       THEN UNCHANGED <<allNames, contextWords>>
       ELSE \E answer \in CTAnswers :
              IF ~answer.ok
              THEN UNCHANGED <<allNames, contextWords>>
              ELSE \E order \in RangeOrders(WordMap(answer.subdomains, cfg.Domain)) :
                     /\ contextWords' = contextWords \o order
                     /\ allNames' =
                          AddGenerated(AddNames(allNames, answer.subdomains), order)
    /\ runPc' = "seed"
    /\ UNCHANGED <<limVars, scanVars, valVars, engVars, ckVars, inspVars, recVars, moreVars, cfg, wordlistData, runErr,
                   reportOpened, scannerCreated, scanNames>>

\* generateNames, 2: the permutation engine on the seed
GenerateFromSeed ==
    /\ runPc = "seed"
    /\ allNames' = IF cfg.Seed # <<>>
                   THEN AddNames(allNames, Generate(Default, cfg.Seed))
                   ELSE allNames
    /\ runPc' = "wordlist"
    /\ UNCHANGED <<limVars, scanVars, valVars, engVars, ckVars, inspVars, recVars, moreVars, cfg, wordlistData, runErr,
                   contextWords, reportOpened, scannerCreated, scanNames>>

\* generateNames, 3: the wordlist, raw
GenerateFromWordlist ==
    /\ runPc = "wordlist"
    /\ IF cfg.Wordlist = ""
       THEN /\ runPc' = "ai"
            /\ UNCHANGED <<wordlistData, allNames, runErr>>
       ELSE \E file \in WordlistFiles :
              IF ~file.ok
              THEN /\ runErr' = "failed to generate names"
                   /\ runPc' = "returned"
                   /\ UNCHANGED <<wordlistData, allNames>>
              ELSE /\ wordlistData' = file.data
                   /\ allNames' = AddNames(allNames, LoadWordlist(file.data))
                   /\ runPc' = "ai"
                   /\ runErr' = runErr
    /\ UNCHANGED <<limVars, scanVars, valVars, engVars, ckVars, inspVars, recVars, moreVars, cfg, contextWords,
                   reportOpened, scannerCreated, scanNames>>

\* generateNames, 4: AI generation
GenerateFromAI ==
    /\ runPc = "ai"
    /\ IF ~cfg.AIEnabled \/ (cfg.Seed = <<>> /\ Len(contextWords) = 0)
       THEN UNCHANGED allNames
       ELSE \E answer \in AIAnswers :
              allNames' = IF answer.ok THEN AddNames(allNames, answer.names)
                          ELSE allNames
    /\ runPc' = "check"
    /\ UNCHANGED <<limVars, scanVars, valVars, engVars, ckVars, inspVars, recVars, moreVars, cfg, wordlistData, runErr,
                   contextWords, reportOpened, scannerCreated, scanNames>>

\* run without its test of len(names)
RunCheckNamesSkipped ==
    /\ runPc = "check"
    /\ runPc' = "report"
    /\ UNCHANGED <<limVars, scanVars, valVars, engVars, ckVars, inspVars, recVars, moreVars, cfg, wordlistData, runErr,
                   allNames, contextWords, reportOpened, scannerCreated, scanNames>>

\* run: len(names) == 0
RunCheckNames ==
    /\ runPc = "check"
    /\ IF Len(allNames) = 0
       THEN /\ runErr' = "no bucket names generated"
            /\ runPc' = "returned"
       ELSE /\ runErr' = runErr
            /\ runPc' = "report"
    /\ UNCHANGED <<limVars, scanVars, valVars, engVars, ckVars, inspVars, recVars, moreVars, cfg, wordlistData, allNames,
                   contextWords, reportOpened, scannerCreated, scanNames>>

\* run: output.NewReport, which creates the report file or fails
RunNewReport ==
    /\ runPc = "report"
    /\ \E created \in BOOLEAN :
         IF created
         THEN /\ reportOpened' = TRUE
              /\ runPc' = "scanner"
              /\ runErr' = runErr
         ELSE /\ reportOpened' = reportOpened
              /\ runPc' = "returned"
              /\ runErr' = "failed to create report writer"
    /\ UNCHANGED <<limVars, scanVars, valVars, engVars, ckVars, inspVars, recVars, moreVars, cfg, wordlistData, allNames,
                   contextWords, scannerCreated, scanNames>>

\* run: scanner.New
RunNewScanner ==
    /\ runPc = "scanner"
    /\ scannerCreated' = TRUE
    /\ runPc' = "scan"
    /\ UNCHANGED <<limVars, scanVars, valVars, engVars, ckVars, inspVars, recVars, moreVars, cfg, wordlistData, runErr,
                   allNames, contextWords, reportOpened, scanNames>>

\* run: s.Scan(ctx, names), the results written, nil returned
RunScan ==
    /\ runPc = "scan"
    /\ scanNames' = allNames
    /\ runPc' = "returned"
    /\ UNCHANGED <<limVars, scanVars, valVars, engVars, ckVars, inspVars, recVars, moreVars, cfg, wordlistData, runErr,
                   allNames, contextWords, reportOpened, scannerCreated>>

DriverInit ==
    /\ \E seed \in SeedFlags, wordlist \in WordlistFlags, domain \in DomainFlags,
          ai \in BOOLEAN : DriverStart(seed, wordlist, domain, ai)
    /\ LimIdle
    /\ ScanIdle
    /\ ValidatorIdle
    /\ EngineIdle
    /\ CheckIdle
    /\ InspectIdle
    /\ RecordIdle
    /\ MoreIdle

DriverNext ==
    \/ RunValidate
    \/ GenerateFromCT
    \/ GenerateFromSeed
    \/ GenerateFromWordlist
    \/ GenerateFromAI
    \/ RunCheckNames
    \/ RunNewReport
    \/ RunNewScanner
    \/ RunScan

SpecDriver == DriverInit /\ [][DriverNext]_vars

(***************************************************************************)
(* Claims about the command (checked under SpecDriver).                    *)
(***************************************************************************)
\* C14: every name handed to s.Scan satisfies IsValidBucketName.
C14_ScannedNamesValid ==
    \A i \in 1..Len(scanNames) : IsValidBucketName(scanNames[i])

WordlistOnly ==
    cfg.Seed = <<>> /\ cfg.Domain = <<>> /\ ~cfg.AIEnabled /\ cfg.Wordlist # ""

WordlistLoaded ==
    \/ runPc \in {"ai", "check", "report", "scanner", "scan"}
    \/ runPc = "returned" /\ runErr # "failed to generate names"

\* each line trimmed and lower-cased, a repeated candidate kept once
TrimmedLowered(lines) ==
    AddNames(<<>>, [i \in 1..Len(lines) |-> ToLower(TrimSpace(lines[i]))])

\* C17: with a wordlist and nothing else, the names generated are the
\* wordlist's lines, each trimmed and lower-cased, in order, and nothing more.
C17_WordlistLinesTrimmedLowered ==
    (WordlistOnly /\ WordlistLoaded) =>
        allNames = TrimmedLowered(LoadWordlist(wordlistData))

\* C20: the report file is created, the scanner is created and Scan is called
\* only with at least one name and an input source configured; a run with no
\* input source, or one whose generation ends with no name, returns an error
\* having done none of the three.
C20_NoNamesNoScan ==
    /\ (reportOpened \/ scannerCreated \/ runPc \in {"report", "scanner", "scan"}) =>
          (Len(allNames) > 0 /\ ~NoInputSource)
    /\ Len(scanNames) > 0 => scannerCreated
    /\ (runPc = "returned" /\ (NoInputSource \/ Len(allNames) = 0)) =>
          /\ runErr # ""
          /\ ~reportOpened
          /\ ~scannerCreated
          /\ scanNames = <<>>

\* a seed none of whose permutations is a valid name
C20_Witness ==
    /\ runPc = "returned"
    /\ cfg.Seed = <<"_", "x">>
    /\ runErr = "no bucket names generated"
    /\ ~reportOpened /\ ~scannerCreated

(***************************************************************************)
(* Prober.Check: up to three attempts, each behind limiter.Wait            *)
(***************************************************************************)
\* maxRetries of Check
MaxRetries == 2

\* the statuses the HTTP client answers with
ProbeStatuses == {200, 301, 307, 400, 403, 404, 429, 500, 503}

\* the errors a ProbeResponse carries
ErrCanceled == "context canceled"
ErrBurst == "rate: Wait(n=1) exceeds limiter's burst"
ErrNetwork == "network error"
ErrRequest == "net/http: invalid request"
ErrStatus == "unexpected status code"

\* the error of limiter.Wait: rate.Limiter.Wait refuses a request above the
\* burst before it looks at ctx
WaitError(burst, ctxDone) ==
    IF burst < 1 THEN ErrBurst
    ELSE IF ctxDone THEN ErrCanceled
    ELSE ""

\* Check is entered, with a live or an already cancelled ctx
ProbeStart ==
    /\ ckPc = "wait" /\ ckAttempt = 0 /\ ckCtxDone \in BOOLEAN /\ ckSeen = <<>>
    /\ ckResp = [StatusCode |-> 0, Result |-> BucketNotFound, Error |-> ""]

\* ctx is cancelled while the call runs
ProbeCancel ==
    /\ ckPc \in {"wait", "do", "sleep"}
    /\ ~ckCtxDone
    /\ ckCtxDone' = TRUE
    /\ UNCHANGED <<limVars, scanVars, valVars, engVars, driverVars, inspVars, recVars, moreVars,
                   ckPc, ckAttempt, ckSeen, ckResp>>

\* limiter.Wait hands out a token
ProbeWait ==
    /\ ckPc = "wait"
    /\ WaitError(limBurst, ckCtxDone) = ""
    /\ ckTokens' = ckTokens + 1
    /\ ckPc' = "do"
    /\ UNCHANGED <<limVars, scanVars, valVars, engVars, driverVars, inspVars, recVars,
                   snapVars, rescans, reportVars, ckAttempt, ckCtxDone, ckSeen,
                   ckResp>>

\* a Wait failure returned with the error alone, the result left as it was
ProbeWaitErrorUnclassified ==
    /\ ckPc = "wait"
    /\ WaitError(limBurst, ckCtxDone) # ""
    /\ ckResp' = [ckResp EXCEPT !.Error = WaitError(limBurst, ckCtxDone)]
    /\ ckPc' = "done"
    /\ UNCHANGED <<limVars, scanVars, valVars, engVars, driverVars, inspVars, recVars, moreVars,
                   ckAttempt, ckCtxDone, ckSeen>>

\* limiter.Wait fails: ctx is done, or one token exceeds the burst
ProbeWaitError ==
    /\ ckPc = "wait"
    /\ WaitError(limBurst, ckCtxDone) # ""
    /\ ckResp' = [ckResp EXCEPT !.Result = BucketError,
                                !.Error = WaitError(limBurst, ckCtxDone)]
    /\ ckPc' = "done"
    /\ UNCHANGED <<limVars, scanVars, valVars, engVars, driverVars, inspVars, recVars, moreVars,
                   ckAttempt, ckCtxDone, ckSeen>>

\* http.NewRequestWithContext rejects the URL built from the bucket name; the
\* URL is the same on every attempt, so it is the first attempt that fails
ProbeRequestError ==
    /\ ckPc = "do"
    /\ ckAttempt = 0
    /\ ckResp' = [ckResp EXCEPT !.Result = BucketError, !.Error = ErrRequest]
    /\ ckPc' = "done"
    /\ UNCHANGED <<limVars, scanVars, valVars, engVars, driverVars, inspVars, recVars, moreVars,
                   ckAttempt, ckCtxDone, ckSeen>>

\* client.Do fails with attempts left: sleep, then go round again
ProbeDoErrorRetried ==
    /\ ckPc = "do"
    /\ ckAttempt < MaxRetries
    /\ ckSeen' = Append(ckSeen, 0)
    /\ ckPc' = "sleep"
    /\ UNCHANGED <<limVars, scanVars, valVars, engVars, driverVars, inspVars, recVars, moreVars,
                   ckAttempt, ckCtxDone, ckResp>>

\* a back-off that is followed by the next request at once
ProbeSleepThenDo ==
    /\ ckPc = "sleep"
    /\ ckAttempt' = ckAttempt + 1
    /\ ckPc' = "do"
    /\ UNCHANGED <<limVars, scanVars, valVars, engVars, driverVars, inspVars, recVars, moreVars,
                   ckCtxDone, ckSeen, ckResp>>

\* time.Sleep is over; continue
ProbeSleep ==
    /\ ckPc = "sleep"
    /\ ckAttempt' = ckAttempt + 1
    /\ ckPc' = "wait"
    /\ UNCHANGED <<limVars, scanVars, valVars, engVars, driverVars, inspVars, recVars, moreVars,
                   ckCtxDone, ckSeen, ckResp>>

\* the last attempt's failure returned without a word to the limiter
ProbeDoErrorFinalUnrecorded ==
    /\ ckPc = "do"
    /\ ckAttempt >= MaxRetries
    /\ ckSeen' = Append(ckSeen, 0)
    /\ ckResp' = [ckResp EXCEPT !.Result = BucketError, !.Error = ErrNetwork]
    /\ ckPc' = "done"
    /\ UNCHANGED <<limVars, scanVars, valVars, engVars, driverVars, inspVars, recVars, moreVars,
                   ckAttempt, ckCtxDone>>

\* client.Do fails on the last attempt
ProbeDoErrorFinal ==
    /\ ckPc = "do"
    /\ ckAttempt >= MaxRetries
    /\ ckSeen' = Append(ckSeen, 0)
    /\ ckResp' = [ckResp EXCEPT !.Result = BucketError, !.Error = ErrNetwork]
    /\ RecordResponse(0)
    /\ ckPc' = "done"
    /\ UNCHANGED <<scanVars, valVars, engVars, driverVars, inspVars, recVars, moreVars,
                   ckAttempt, ckCtxDone>>

\* a 5xx answer with attempts left: record it and go round again
ProbeDoStatusRetried ==
    /\ ckPc = "do"
    /\ ~ckCtxDone
    /\ ckAttempt < MaxRetries
    /\ \E statusCode \in ProbeStatuses :
          /\ statusCode >= 500
          /\ ckSeen' = Append(ckSeen, statusCode)
          /\ RecordResponse(statusCode)
    /\ ckAttempt' = ckAttempt + 1
    /\ ckPc' = "wait"
    /\ UNCHANGED <<scanVars, valVars, engVars, driverVars, inspVars, recVars, moreVars,
                   ckCtxDone, ckResp>>

\* any other answer, or a 5xx answer on the last attempt: record, classify
ProbeDoStatusFinal ==
    /\ ckPc = "do"
    /\ ~ckCtxDone
    /\ \E statusCode \in ProbeStatuses :
          /\ ~(statusCode >= 500 /\ ckAttempt < MaxRetries)
          /\ ckSeen' = Append(ckSeen, statusCode)
          /\ RecordResponse(statusCode)
          /\ ckResp' = [StatusCode |-> statusCode,
                        Result |-> Classify(statusCode),
                        Error |-> IF statusCode \in {200, 403, 404, 301, 307}
                                  THEN "" ELSE ErrStatus]
    /\ ckPc' = "done"
    /\ UNCHANGED <<scanVars, valVars, engVars, driverVars, inspVars, recVars, moreVars,
                   ckAttempt, ckCtxDone>>

CheckInit ==
    /\ \E c \in CeilingInputs : New(c)
    /\ adjusts = 0
    /\ zeroSeen = FALSE
    /\ trail = <<>>
    /\ ProbeStart
    /\ ScanIdle
    /\ ValidatorIdle
    /\ EngineIdle
    /\ DriverIdle
    /\ InspectIdle
    /\ RecordIdle
    /\ MoreIdle

CheckNext ==
    \/ ProbeCancel
    \/ ProbeWait
    \/ ProbeWaitError
    \/ ProbeRequestError
    \/ ProbeDoErrorRetried
    \/ ProbeSleep
    \/ ProbeDoErrorFinal
    \/ ProbeDoStatusRetried
    \/ ProbeDoStatusFinal

SpecCheck == CheckInit /\ [][CheckNext]_vars

\* the steps of the call itself: every blocking call in it ends (Wait with a
\* token or an error, client.Do within the client's timeout, Sleep)
ProbeStep ==
    \/ ProbeWait
    \/ ProbeWaitError
    \/ ProbeRequestError
    \/ ProbeDoErrorRetried
    \/ ProbeSleep
    \/ ProbeDoErrorFinal
    \/ ProbeDoStatusRetried
    \/ ProbeDoStatusFinal

FairSpecCheck == SpecCheck /\ WF_vars(ProbeStep)

(***************************************************************************)
(* Claims about Check                                                      *)
(***************************************************************************)
\* the table of the claim
ClassOfStatus(statusCode) ==
    IF statusCode = 200 THEN "public"
    ELSE IF statusCode = 403 \/ statusCode = 301 \/ statusCode = 307 THEN "private"
    ELSE IF statusCode = 404 THEN "not_found"
    ELSE "error"

\* the five answers of the stubbed prober, in order
StubbedStatuses == <<200, 403, 404, 301, 500>>

\* C13: when Check returns after an HTTP answer, its classification is the
\* table's entry for that last answer, whatever the earlier attempts gave:
\* 200 Exists, 403 Forbidden, 404 NotFound, 301 and 307 Forbidden, anything
\* else Error; a call that ends without an answer is an Error.  The answers
\* 200, 403, 404, 301, 500 classify as Exists, Forbidden, NotFound, Forbidden,
\* Error, and all but the NotFound one go on from processBucket: four results.
C13_ClassByFinalStatus ==
    /\ ckPc = "done" =>
          IF ckResp.StatusCode # 0
          THEN /\ ckSeen[Len(ckSeen)] = ckResp.StatusCode
               /\ ckResp.Result = ClassOfStatus(ckResp.StatusCode)
          ELSE ckResp.Result = "error"
    /\ [i \in 1..5 |-> Classify(StubbedStatuses[i])]
          = <<"public", "private", "not_found", "private", "error">>
    /\ \A deep \in BOOLEAN :
          Cardinality({i \in 1..5 :
              AfterSwitch(Classify(StubbedStatuses[i]), deep) # "recv"}) = 4

\* a redirect classified on the third attempt, after two retried answers
C13_Witness ==
    /\ ckPc = "done"
    /\ Len(ckSeen) = 3
    /\ ckSeen[1] = 500 /\ ckSeen[2] = 0
    /\ ckResp.StatusCode = 301
    /\ ckResp.Result = BucketForbidden

(***************************************************************************)
(* Inspector.Inspect: region by HEAD, then the anonymous list with one     *)
(* retry in the region the error names                                     *)
(***************************************************************************)
\* the list parseRegionFromError searches, in its order
KnownRegions ==
    <<"us-east-1", "us-east-2", "us-west-1", "us-west-2",
      "eu-west-1", "eu-west-2", "eu-west-3", "eu-central-1",
      "ap-south-1", "ap-northeast-1", "ap-northeast-2", "ap-southeast-1",
      "ap-southeast-2", "sa-east-1", "ca-central-1">>

\* what the HEAD request gives: no answer, or the x-amz-bucket-region header
HeadAnswers == {"fail", "", "us-east-1", "us-west-2", "eu-west-1"}

\* error strings of ListObjectsV2, each as the set of the markers and region
\* names it contains
ListErrors ==
    {{},
     {"AccessDenied"},
     {"AllAccessDisabled"},
     {"BucketRegionError"},
     {"please use the correct region", "eu-west-1"},
     {"PermanentRedirect", "us-east-1"},
     {"PermanentRedirect", "eu-west-1", "us-west-2"},
     {"AccessDenied", "BucketRegionError", "eu-west-2"}}

\* len(output.Contents) of a successful list (MaxKeys is 100)
ContentCounts == {0, 3, 12}

\* most sample keys kept
MaxSampleKeys == 10

\* strings.Contains(errStr, marker)
ErrContains(errStr, marker) == marker \in errStr

parseRegionFromError(errMsg) ==
    LET hits == {k \in 1..Len(KnownRegions) : ErrContains(errMsg, KnownRegions[k])}
    IN  IF hits = {} THEN "us-east-1"
        ELSE KnownRegions[CHOOSE k \in hits : \A j \in hits : k <= j]

\* the region the list call uses
ListRegion(region) ==
    IF region = "" \/ region = "unknown" THEN "us-east-1" ELSE region

IsRegionMismatch(errStr) ==
    \/ ErrContains(errStr, "BucketRegionError")
    \/ ErrContains(errStr, "PermanentRedirect")
    \/ ErrContains(errStr, "please use the correct region")

\* the error makes checkPublicAccessWithRetry call itself once more
RetriesWith(errStr, region, retried) ==
    /\ ~retried
    /\ IsRegionMismatch(errStr)
    /\ parseRegionFromError(errStr) # ""
    /\ parseRegionFromError(errStr) # ListRegion(region)

\* the ACL tag for an error that is not retried
ACLOfError(errStr) ==
    IF ErrContains(errStr, "AccessDenied") THEN "private"
    ELSE IF ErrContains(errStr, "AllAccessDisabled") THEN "disabled"
    ELSE "unknown"

InspectStart ==
    /\ inspPc = "head" /\ inspRegion = "" /\ inspRetried = FALSE
    /\ inspErr = <<>> /\ inspListed = FALSE
    /\ inspResult = [Region |-> "", IsPublic |-> FALSE, ACL |-> "",
                     ObjectCount |-> -1, SampleKeys |-> 0]

\* getBucketRegion, and Inspect storing its answer in result.Region
GetBucketRegion ==
    /\ inspPc = "head"
    /\ \E h \in HeadAnswers :
          LET region == IF h = "fail" \/ h = "" THEN "us-east-1" ELSE h
          IN  /\ inspResult' = [inspResult EXCEPT !.Region = region]
              /\ inspRegion' = region
    /\ inspPc' = "list"
    /\ UNCHANGED <<limVars, scanVars, valVars, engVars, driverVars, ckVars, recVars, moreVars,
                   inspRetried, inspErr, inspListed>>

\* config.LoadDefaultConfig fails
ListConfigError ==
    /\ inspPc = "list"
    /\ inspResult' = [inspResult EXCEPT !.IsPublic = FALSE, !.ACL = "unknown",
                                        !.ObjectCount = -1, !.SampleKeys = 0]
    /\ inspPc' = "done"
    /\ UNCHANGED <<limVars, scanVars, valVars, engVars, driverVars, ckVars, recVars, moreVars,
                   inspRegion, inspRetried, inspErr, inspListed>>

\* ListObjectsV2 fails with a region mismatch on the first attempt: the call
\* is repeated against the region found in the error
ListErrorRetried ==
    /\ inspPc = "list"
    /\ \E errStr \in ListErrors :
          /\ RetriesWith(errStr, inspRegion, inspRetried)
          /\ inspErr' = Append(inspErr, errStr)
          /\ inspRegion' = parseRegionFromError(errStr)
    /\ inspRetried' = TRUE
    /\ UNCHANGED <<limVars, scanVars, valVars, engVars, driverVars, ckVars, recVars, moreVars,
                   inspPc, inspListed, inspResult>>

\* ListObjectsV2 fails and the call is not repeated
ListErrorFinal ==
    /\ inspPc = "list"
    /\ \E errStr \in ListErrors :
          /\ ~RetriesWith(errStr, inspRegion, inspRetried)
          /\ inspErr' = Append(inspErr, errStr)
          /\ inspResult' = [inspResult EXCEPT !.IsPublic = FALSE,
                                              !.ACL = ACLOfError(errStr),
                                              !.ObjectCount = -1,
                                              !.SampleKeys = 0]
    /\ inspPc' = "done"
    /\ UNCHANGED <<limVars, scanVars, valVars, engVars, driverVars, ckVars, recVars, moreVars,
                   inspRegion, inspRetried, inspListed>>

\* ListObjectsV2 returns output
ListSucceeds ==
    /\ inspPc = "list"
    /\ \E n \in ContentCounts, truncated \in BOOLEAN :
          inspResult' = [inspResult EXCEPT
                            !.IsPublic = TRUE,
                            !.ACL = "public-read",
                            !.ObjectCount = IF truncated THEN -2 ELSE n,
                            !.SampleKeys = IF n >= MaxSampleKeys
                                           THEN MaxSampleKeys ELSE n]
    /\ inspListed' = TRUE
    /\ inspPc' = "done"
    /\ UNCHANGED <<limVars, scanVars, valVars, engVars, driverVars, ckVars, recVars, moreVars,
                   inspRegion, inspRetried, inspErr>>

InspectInit ==
    /\ InspectStart
    /\ LimIdle
    /\ ScanIdle
    /\ ValidatorIdle
    /\ EngineIdle
    /\ DriverIdle
    /\ CheckIdle
    /\ RecordIdle
    /\ MoreIdle

InspectNext ==
    \/ GetBucketRegion
    \/ ListConfigError
    \/ ListErrorRetried
    \/ ListErrorFinal
    \/ ListSucceeds

SpecInspect == InspectInit /\ [][InspectNext]_vars

(***************************************************************************)
(* Claims about Inspect                                                    *)
(***************************************************************************)
\* the first list failed with a region mismatch naming eu-west-1, and the
\* second, against eu-west-1, returned output
RetriedInEuWest1 ==
    /\ inspPc = "done"
    /\ inspRetried
    /\ Len(inspErr) = 1
    /\ IsRegionMismatch(inspErr[1])
    /\ ErrContains(inspErr[1], "eu-west-1")
    /\ inspRegion = "eu-west-1"
    /\ inspListed

\* C19: after a first list that fails with a region mismatch naming eu-west-1
\* and a retry against eu-west-1 that succeeds, the result Inspect returns has
\* region eu-west-1, is public and has ACL public-read.
C19_RetryRegionCorrected ==
    RetriedInEuWest1 =>
        /\ inspResult.Region = "eu-west-1"
        /\ inspResult.IsPublic
        /\ inspResult.ACL = "public-read"

\* Check is at its first statement with ctx cancelled: it was entered with
\* a cancelled ctx (or ctx was cancelled before the first Wait looked at it)
EnteredCancelled ==
    ckPc = "wait" /\ ckAttempt = 0 /\ ckSeen = <<>> /\ ckCtxDone

\* C21: a Check entered with ctx already cancelled returns at once, with
\* Error and the cancellation as its error, having sent no request and made
\* no RecordResponse call: the rate and both counters stay as they were.
C21_CancelledEntryReturnsError ==
    [][EnteredCancelled =>
          /\ ckPc' = "done"
          /\ ckResp'.Result = BucketError
          /\ ckResp'.Error = ErrCanceled
          /\ ckSeen' = <<>>
          /\ trail' = trail
          /\ UNCHANGED <<currentRPS, consecutive429, successCount>>]_vars

\* the statuses RecordResponse was called with during the call, oldest first
Recorded == [i \in 1..Len(trail) |-> trail[i].status]

\* C25: an answer of 429 or 503 ends the call: it is the last request of the
\* call, and Check returns with that status.
C25_ThrottleAnswersNotRetried ==
    \A i \in 1..Len(ckSeen) :
        ckSeen[i] \in {429, 503} =>
            /\ i = Len(ckSeen)
            /\ ckPc = "done"
            /\ ckResp.StatusCode = ckSeen[i]

\* C26: during one call RecordResponse is called at most once, and only with
\* the outcome the call ends on: once with the final answer's status when
\* an answer ends the call, once with 0 when the last attempt fails; the
\* attempts that are retried are not recorded.
C26_OneRecordPerCheck ==
    /\ Len(trail) <= 1
    /\ ckPc # "done" => trail = <<>>
    /\ (ckPc = "done" /\ ckResp.StatusCode # 0) =>
          Recorded = <<ckResp.StatusCode>>
    /\ (ckPc = "done" /\ ckResp.Error = ErrNetwork) => Recorded = <<0>>

\* number of entries of seq equal to x
RECURSIVE CountOf(_, _)
CountOf(seq, x) ==
    IF seq = <<>> THEN 0
    ELSE (IF Head(seq) = x THEN 1 ELSE 0) + CountOf(Tail(seq), x)

\* what holds of transport errors at every point of a call
TransportErrorsRetried ==
    /\ Len(ckSeen) <= MaxRetries + 1
    \* a failure on attempt 0 or 1 sends the call round the loop again: it
    \* ends there only if the next Wait fails
    /\ (ckPc = "done" /\ ckSeen # <<>> /\ ckSeen[Len(ckSeen)] = 0
           /\ Len(ckSeen) <= MaxRetries) =>
          /\ ckResp.Error = ErrCanceled
          /\ CountOf(Recorded, 0) = 0
    /\ ckPc = "sleep" => (ckAttempt < MaxRetries /\ ckSeen[Len(ckSeen)] = 0)
    \* the third failure in a row ends it: Error, status 0, one RecordResponse(0)
    /\ ckSeen = <<0, 0, 0>> =>
          /\ ckPc = "done"
          /\ ckResp.Result = BucketError
          /\ ckResp.StatusCode = 0
          /\ ckResp.Error = ErrNetwork
          /\ Recorded = <<0>>
    \* failures followed by an answer: no RecordResponse(0)
    /\ CountOf(Recorded, 0) = 1 <=>
          (Len(ckSeen) = MaxRetries + 1 /\ ckSeen[MaxRetries + 1] = 0)
    /\ CountOf(Recorded, 0) <= 1

\* C27: a transport error on attempt 0 or 1 is retried; a call sends at most
\* three requests and always returns; three failures in a row give Error with
\* status 0 and exactly one RecordResponse(0); failures followed by an answer
\* give no RecordResponse(0).
C27_TransportRetriesBounded ==
    /\ []TransportErrorsRetried
    /\ <>(ckPc = "done")

\* three failures in a row, reported to the limiter once
C27_Witness ==
    /\ ckPc = "done"
    /\ ckSeen = <<0, 0, 0>>
    /\ ckResp.Result = BucketError
    /\ Recorded = <<0>>

(***************************************************************************)
(* Claims about the limiter's view of 5xx statuses                         *)
(***************************************************************************)
\* C30: a call of RecordResponse with a 5xx status counts as a failure: it
\* leaves the success counter at 0 and either raises the failure counter by
\* one or applies the decrease.
C30_Every5xxIsFailure ==
    (Called /\ LastCall.status >= 500) =>
        /\ successCount = 0
        /\ (LastCall.stored \/ consecutive429 = LastCall.fails + 1)

(***************************************************************************)
(* Claims about the inspection stage of Scan                               *)
(***************************************************************************)
FoundClasses == {BucketExists, BucketForbidden}

\* C22: an inspection worker holds a result only in deep mode and only one
\* classified Exists or Forbidden; with deep mode off nothing is ever put on
\* the inspect channel; a result sent on the results channel carries an
\* InspectResult exactly when the mode is deep and its class is Exists or
\* Forbidden (Error results and results of the plain mode carry none).
C22_InspectOnlyFoundInDeepMode ==
    /\ \A i \in InspectorIds :
          ipc[i] \in {"inspect", "emit"} =>
              (deepInspect /\ ires[i].probe \in FoundClasses)
    /\ \A k \in 1..Len(inspectChan) :
          deepInspect /\ inspectChan[k].probe \in FoundClasses
    /\ ~deepInspect => inspectChan = <<>>
    /\ \A r \in BagToSet(sent) :
          r.inspected <=> (deepInspect /\ r.probe \in FoundClasses)

\* deep mode: a found bucket sent with its inspection, an error sent without
C22_Witness ==
    /\ deepInspect
    /\ \E r \in BagToSet(sent) : r.probe = BucketExists /\ r.inspected
    /\ \E r \in BagToSet(sent) : r.probe = BucketError /\ ~r.inspected

\* C23: the names channel is closed before the inspect channel, and the
\* inspect channel before the results channel, cancelled runs included.
C23_ChannelsCloseInOrder ==
    /\ inspectClosed => namesClosed
    /\ resultsClosed => inspectClosed

\* C24: a probe worker never inspects: what it holds carries no InspectResult;
\* in deep mode a result classified Exists or Forbidden goes to the inspect
\* channel and nowhere else, and the worker is then back at the names channel;
\* while the inspect channel has room the hand-over can be taken at once,
\* whatever the inspection workers are doing.
C24_ProbeWorkerNeverInspects ==
    \A w \in WorkerIds :
        /\ ~wres[w].inspected
        /\ wpc[w] = "enqueue" => (deepInspect /\ wres[w].probe \in FoundClasses)
        /\ (wpc[w] = "emit" /\ deepInspect) => wres[w].probe \notin FoundClasses
        /\ (wpc[w] = "enqueue" /\ Len(inspectChan) < InspectCap) =>
              ENABLED WorkerEnqueue(w)

\* a worker hands a result over while the inspection worker is busy with
\* another one
C24_Witness ==
    \E w \in WorkerIds, i \in InspectorIds :
        /\ wpc[w] = "enqueue"
        /\ Len(inspectChan) < InspectCap
        /\ ipc[i] = "inspect"

(***************************************************************************)
(* RecordResponse, Wait and CurrentRPS called from several goroutines      *)
(***************************************************************************)
\* RecordResponse calls begun per run
MaxCalls == 3

\* the goroutines calling RecordResponse
Callers == {1, 2}

\* the statuses they pass
CallerStatuses == {0, 200, 429}

\* the limiter as one value
LimiterState ==
    [max |-> maxRPS, rps |-> currentRPS, fails |-> consecutive429,
     succ |-> successCount, limit |-> limLimit, burst |-> limBurst]

\* one whole RecordResponse call applied to a limiter value
Applied(st, statusCode) ==
    IF IsFailureStatus(statusCode)
    THEN IF st.fails + 1 >= DecreaseThreshold(statusCode)
         THEN LET newRPS == DecreasedRPS(st.rps, statusCode)
              IN  [st EXCEPT !.rps = newRPS, !.limit = newRPS,
                             !.burst = Trunc(newRPS), !.fails = 0, !.succ = 0]
         ELSE [st EXCEPT !.fails = st.fails + 1, !.succ = 0]
    ELSE IF st.succ + 1 >= SuccessThreshold /\ RLess(st.rps, st.max)
         THEN LET newRPS == IncreasedRPS(st.rps, st.max)
              IN  [st EXCEPT !.rps = newRPS, !.limit = newRPS,
                             !.burst = Trunc(newRPS), !.fails = 0, !.succ = 0]
         ELSE [st EXCEPT !.fails = 0, !.succ = st.succ + 1]

\* the limiter New(100) returns
Fresh ==
    LET m == F64(DefaultMaxRPS, 1)
    IN  [max |-> m, rps |-> m, fails |-> 0, succ |-> 0, limit |-> m,
         burst |-> Trunc(m)]

\* the limiter states the concurrent callers start from, each one the state
\* after some calls made one at a time: none; two 429s (the next one halves);
\* three 429s and 99 successes (the next success raises the rate)
Starts ==
    {Fresh,
     [Fresh EXCEPT !.fails = ThrottleThreshold - 1],
     [Fresh EXCEPT !.rps = F64(50, 1), !.limit = F64(50, 1), !.burst = 50,
                   !.succ = SuccessThreshold - 1]}

ConcurrentStart(st) ==
    /\ maxRPS = st.max /\ currentRPS = st.rps /\ limLimit = st.limit
    /\ limBurst = st.burst /\ consecutive429 = st.fails /\ successCount = st.succ
    /\ adjusts = 0 /\ zeroSeen = FALSE /\ trail = <<>>
    /\ mu = 0
    /\ rpc = [c \in Callers |-> "idle"]
    /\ rstatus = [c \in Callers |-> 200]
    /\ rcur = [c \in Callers |-> st.rps]
    /\ rnew = [c \in Callers |-> st.rps]
    /\ calls = 0
    /\ serial = st
    /\ seen = <<>>

\* what a step of a caller leaves alone besides the limiter and its locals
RecOthersUnchanged ==
    UNCHANGED <<scanVars, valVars, engVars, driverVars, ckVars, inspVars,
                moreVars, maxRPS, adjusts, zeroSeen, trail>>

\* a call that does not wait for a.mu
RecLockNoMutex(c) ==
    /\ rpc[c] = "idle"
    /\ calls < MaxCalls
    /\ \E statusCode \in CallerStatuses :
          /\ rstatus' = [rstatus EXCEPT ![c] = statusCode]
          /\ serial' = Applied(serial, statusCode)
    /\ mu' = c
    /\ calls' = calls + 1
    /\ rpc' = [rpc EXCEPT ![c] = "load"]
    /\ RecOthersUnchanged
    /\ UNCHANGED <<currentRPS, consecutive429, successCount, limLimit, limBurst,
                   rcur, rnew, seen>>

\* RecordResponse(statusCode) is called and a.mu.Lock() returns
RecLock(c) ==
    /\ rpc[c] = "idle"
    /\ calls < MaxCalls
    /\ mu = 0
    /\ \E statusCode \in CallerStatuses :
          /\ rstatus' = [rstatus EXCEPT ![c] = statusCode]
          /\ serial' = Applied(serial, statusCode)
    /\ mu' = c
    /\ calls' = calls + 1
    /\ rpc' = [rpc EXCEPT ![c] = "load"]
    /\ RecOthersUnchanged
    /\ UNCHANGED <<currentRPS, consecutive429, successCount, limLimit, limBurst,
                   rcur, rnew, seen>>

\* current := a.currentRPS.Load()
RecLoad(c) ==
    /\ rpc[c] = "load"
    /\ rcur' = [rcur EXCEPT ![c] = currentRPS]
    /\ rpc' = [rpc EXCEPT ![c] = "count"]
    /\ RecOthersUnchanged
    /\ UNCHANGED <<currentRPS, consecutive429, successCount, limLimit, limBurst,
                   mu, rstatus, rnew, calls, serial, seen>>

\* the two counter assignments of the branch taken, and its test
RecCount(c) ==
    /\ rpc[c] = "count"
    /\ IF IsFailureStatus(rstatus[c])
       THEN /\ consecutive429' = consecutive429 + 1
            /\ successCount' = 0
            /\ IF consecutive429 + 1 >= DecreaseThreshold(rstatus[c])
               THEN /\ rnew' = [rnew EXCEPT ![c] = DecreasedRPS(rcur[c], rstatus[c])]
                    /\ rpc' = [rpc EXCEPT ![c] = "store"]
               ELSE /\ UNCHANGED rnew
                    /\ rpc' = [rpc EXCEPT ![c] = "unlock"]
       ELSE /\ consecutive429' = 0
            /\ successCount' = successCount + 1
            /\ IF successCount + 1 >= SuccessThreshold /\ RLess(rcur[c], maxRPS)
               THEN /\ rnew' = [rnew EXCEPT ![c] = IncreasedRPS(rcur[c], maxRPS)]
                    /\ rpc' = [rpc EXCEPT ![c] = "store"]
               ELSE /\ UNCHANGED rnew
                    /\ rpc' = [rpc EXCEPT ![c] = "unlock"]
    /\ RecOthersUnchanged
    /\ UNCHANGED <<currentRPS, limLimit, limBurst, mu, rstatus, rcur, calls,
                   serial, seen>>

\* a.currentRPS.Store(newRPS)
RecStore(c) ==
    /\ rpc[c] = "store"
    /\ currentRPS' = rnew[c]
    /\ rpc' = [rpc EXCEPT ![c] = "setLimit"]
    /\ RecOthersUnchanged
    /\ UNCHANGED <<consecutive429, successCount, limLimit, limBurst, mu,
                   rstatus, rcur, rnew, calls, serial, seen>>

\* a.limiter.SetLimit(rate.Limit(newRPS))
RecSetLimit(c) ==
    /\ rpc[c] = "setLimit"
    /\ limLimit' = rnew[c]
    /\ rpc' = [rpc EXCEPT ![c] = "setBurst"]
    /\ RecOthersUnchanged
    /\ UNCHANGED <<currentRPS, consecutive429, successCount, limBurst, mu,
                   rstatus, rcur, rnew, calls, serial, seen>>

\* a.limiter.SetBurst(int(newRPS))
RecSetBurst(c) ==
    /\ rpc[c] = "setBurst"
    /\ limBurst' = Trunc(rnew[c])
    /\ rpc' = [rpc EXCEPT ![c] = "reset"]
    /\ RecOthersUnchanged
    /\ UNCHANGED <<currentRPS, consecutive429, successCount, limLimit, mu,
                   rstatus, rcur, rnew, calls, serial, seen>>

\* a.consecutive429 = 0, or a.successCount = 0 in the success branch
RecReset(c) ==
    /\ rpc[c] = "reset"
    /\ IF IsFailureStatus(rstatus[c])
       THEN consecutive429' = 0 /\ UNCHANGED successCount
       ELSE successCount' = 0 /\ UNCHANGED consecutive429
    /\ rpc' = [rpc EXCEPT ![c] = "unlock"]
    /\ RecOthersUnchanged
    /\ UNCHANGED <<currentRPS, limLimit, limBurst, mu, rstatus, rcur, rnew,
                   calls, serial, seen>>

\* the deferred a.mu.Unlock()
RecUnlock(c) ==
    /\ rpc[c] = "unlock"
    /\ mu' = 0
    /\ rpc' = [rpc EXCEPT ![c] = "idle"]
    /\ RecOthersUnchanged
    /\ UNCHANGED <<currentRPS, consecutive429, successCount, limLimit, limBurst,
                   rstatus, rcur, rnew, calls, serial, seen>>

\* CurrentRPS() in another goroutine: one atomic load, a.mu not taken
ReadCurrentRPS ==
    /\ seen' = [rps |-> currentRPS]
    /\ seen' # seen
    /\ RecOthersUnchanged
    /\ UNCHANGED <<currentRPS, consecutive429, successCount, limLimit, limBurst,
                   mu, rpc, rstatus, rcur, rnew, calls, serial>>

\* Wait() in another goroutine: the bucket's limit and burst read together
\* under the bucket's own lock, a.mu not taken
ReadBucket ==
    /\ seen' = [limit |-> limLimit, burst |-> limBurst]
    /\ seen' # seen
    /\ RecOthersUnchanged
    /\ UNCHANGED <<currentRPS, consecutive429, successCount, limLimit, limBurst,
                   mu, rpc, rstatus, rcur, rnew, calls, serial>>

ConcurrentInit ==
    /\ \E st \in Starts : ConcurrentStart(st)
    /\ ScanIdle
    /\ ValidatorIdle
    /\ EngineIdle
    /\ DriverIdle
    /\ CheckIdle
    /\ InspectIdle
    /\ MoreIdle

ConcurrentNext ==
    \/ \E c \in Callers : RecLock(c)
    \/ \E c \in Callers : RecLoad(c)
    \/ \E c \in Callers : RecCount(c)
    \/ \E c \in Callers : RecStore(c)
    \/ \E c \in Callers : RecSetLimit(c)
    \/ \E c \in Callers : RecSetBurst(c)
    \/ \E c \in Callers : RecReset(c)
    \/ \E c \in Callers : RecUnlock(c)
    \/ ReadCurrentRPS
    \/ ReadBucket

SpecConcurrent == ConcurrentInit /\ [][ConcurrentNext]_vars

(***************************************************************************)
(* Claims about concurrent use of the limiter                              *)
(***************************************************************************)
\* C28: RecordResponse calls made at once are serialised: at most one caller
\* is inside the call, and whenever no call is in progress the rate, the two
\* counters and the bucket are what the same calls give when made one at a
\* time in the order they took the lock.
C28_RecordResponseSerialised ==
    /\ \A c, d \in Callers : (rpc[c] # "idle" /\ rpc[d] # "idle") => c = d
    /\ (\A c \in Callers : rpc[c] = "idle") => LimiterState = serial

\* three calls have ended, the last of them having changed the rate
C28_Witness ==
    /\ calls = MaxCalls
    /\ \A c \in Callers : rpc[c] = "idle"
    /\ rstatus[1] # rstatus[2]
    /\ currentRPS # maxRPS
    /\ consecutive429 = 0 /\ successCount = 0

\* C29: at every moment a concurrent reader can look, the rate CurrentRPS
\* returns, the bucket's refill rate and the bucket's burst belong to one rate
\* value, and the refill rate and the burst equal that rate; a Wait never
\* finds a limit and a burst of different rate values.
C29_BucketMatchesRate ==
    /\ limLimit = currentRPS
    /\ F64(limBurst, 1) = currentRPS
    /\ (seen # <<>> /\ "limit" \in DOMAIN seen) => seen.burst = Trunc(seen.limit)

(***************************************************************************)
(* Claims about the region retry of the anonymous list                     *)
(***************************************************************************)
\* ListObjectsV2 calls made so far in this Inspect
ListCalls == Len(inspErr) + (IF inspListed THEN 1 ELSE 0)

\* the error message holds a token of the list parseRegionFromError searches
HasRegionToken(errMsg) ==
    \E k \in 1..Len(KnownRegions) : ErrContains(errMsg, KnownRegions[k])

\* C31: one Inspect makes at most one retry of the anonymous list (two list
\* calls), the retry is against a region whose token is in the error message
\* of the first call, a message with no known token leads to no retry, and
\* the error of the second call ends the Inspect.
C31_RetryOnceWithFoundRegion ==
    /\ ListCalls <= 2
    /\ inspRetried =>
          /\ HasRegionToken(inspErr[1])
          /\ ErrContains(inspErr[1], inspRegion)
    /\ Len(inspErr) = 2 => inspPc = "done"

(***************************************************************************)
(* Claims about cancellation inside Check                                  *)
(***************************************************************************)
\* the positions where Check blocks
BlockingSteps == {"wait", "do", "sleep"}

\* the blocking call at the position is given ctx: limiter.Wait(ctx) and the
\* request built by NewRequestWithContext(ctx, ...) are, time.Sleep is not
TakesContext(pc) == pc \in {"wait", "do"}

\* C32: every blocking step of a probe observes the scan context: once ctx
\* is cancelled the probe is in no wait that ignores the cancellation.
C32_BlockingStepsObserveContext ==
    (ckCtxDone /\ ckPc \in BlockingSteps) => TakesContext(ckPc)

(***************************************************************************)
(* Claims about closing the channels of one Scan                           *)
(***************************************************************************)
\* a goroutine is at a send whose channel is closed (the send would panic)
SendOnClosed ==
    \/ prodPc = "feed" /\ namesClosed
    \/ \E w \in WorkerIds : wpc[w] = "enqueue" /\ inspectClosed
    \/ \E w \in WorkerIds : wpc[w] = "emit" /\ resultsClosed
    \/ \E i \in InspectorIds : ipc[i] = "emit" /\ resultsClosed

\* a goroutine is about to close a channel that is closed already
CloseOfClosed ==
    \/ prodPc = "feed" /\ namesClosed
    \/ closerPc = "waitWorkers" /\ inspectClosed
    \/ closerPc # "done" /\ resultsClosed

\* C33: within one Scan nobody sends on a closed channel, each of the three
\* channels is closed once, inspectChan is closed only after every probe
\* worker has returned and resultsChan only after every probe worker and
\* every inspection worker has returned.
C33_ChannelsClosedOnceAfterSenders ==
    /\ ~SendOnClosed
    /\ ~CloseOfClosed
    /\ inspectClosed => \A w \in WorkerIds : wpc[w] \in {"done", "off"}
    /\ resultsClosed =>
          /\ \A w \in WorkerIds : wpc[w] \in {"done", "off"}
          /\ \A i \in InspectorIds : ipc[i] \in {"done", "off"}

\* a deep scan has closed all three channels after results went out both
\* from a probe worker and from an inspection worker
C33_Witness ==
    /\ deepInspect
    /\ namesClosed /\ inspectClosed /\ resultsClosed
    /\ closerPc = "done"
    /\ \E r \in BagToSet(sent) : r.inspected
    /\ \E r \in BagToSet(sent) : ~r.inspected

(***************************************************************************)
(* Claims about what Check returns                                         *)
(***************************************************************************)
\* the ProbeResponse as Check builds it before the first attempt
ZeroOutcome ==
    /\ ckResp.Result = BucketNotFound
    /\ ckResp.StatusCode = 0
    /\ ckResp.Error = ""

\* C34: Check returns NotFound only when the last HTTP answer was a 404; the
\* zero outcome (NotFound, status 0, nil error) is returned from no path; and
\* the returned error is non-nil exactly when the classification is Error.
C34_NotFoundOnly404 ==
    ckPc = "done" =>
        /\ ckResp.Result = BucketNotFound =>
              /\ ckResp.StatusCode = 404
              /\ ckSeen # <<>>
              /\ ckSeen[Len(ckSeen)] = 404
        /\ ~ZeroOutcome
        /\ (ckResp.Error # "") <=> (ckResp.Result = BucketError)

\* a 404 on the third attempt, after a 5xx answer and a transport error
C34_Witness ==
    /\ ckPc = "done"
    /\ ckSeen = <<503, 0, 404>>
    /\ ckResp.Result = BucketNotFound
    /\ ckResp.Error = ""

(***************************************************************************)
(* Claims about the counters and the results of a finished scan            *)
(***************************************************************************)
\* number of results sent on the results channel with the classification
SentOfClass(class) ==
    LET hits == {r \in BagToSet(sent) : r.probe = class}
    IN  SumOver(hits, [r \in hits |-> CopiesIn(r, sent)])

LoadOrder == <<"scanned", "found", "public", "private", "errors", "notFound">>

\* the position after the load of LoadOrder[k]
AfterLoad(k) == IF k < Len(LoadOrder) THEN LoadOrder[k + 1] ELSE "ret"

\* the first atomic add of processBucket's switch
FirstAdd(class) ==
    CASE class = BucketNotFound -> "addNotFound"
      [] class \in {BucketExists, BucketForbidden} -> "addFound"
      [] OTHER -> "addErrors"

\* Check returns and processBucket fills in the result
CheckReturns(w) ==
    /\ wpc[w] = "http"
    /\ LET class == Classify(StubStatus(wres[w].bucket))
       IN  /\ wres' = [wres EXCEPT ![w].probe = class]
           /\ checked' = checked (+) SetToBag({<<wres[w].bucket, class>>})
           /\ wpc' = [wpc EXCEPT ![w] = FirstAdd(class)]
    /\ UNCHANGED <<limVars, restVars, names, workers, deepInspect, cancelled,
                   chanVars, prodPc, prodIdx, ipc, ires, closerPc, stats,
                   probed, sent>>

\* the worker's next atomic.AddInt64, on the counter named field
AddThen(w, field, next) ==
    /\ stats' = Bump(stats, field)
    /\ wpc' = [wpc EXCEPT ![w] = next]
    /\ UNCHANGED <<limVars, restVars, names, workers, deepInspect, cancelled,
                   chanVars, prodPc, prodIdx, wres, ipc, ires, closerPc,
                   probed, checked, sent>>

\* case BucketNotFound: atomic.AddInt64(&s.stats.NotFound, 1); return
AddNotFound(w) ==
    /\ wpc[w] = "addNotFound"
    /\ AddThen(w, "notFound", "recv")

\* a found bucket that goes on to its second counter with Found left alone
AddFoundSkipped(w) ==
    /\ wpc[w] = "addFound"
    /\ wpc' = [wpc EXCEPT ![w] = IF wres[w].probe = BucketExists
                                 THEN "addPublic" ELSE "addPrivate"]
    /\ UNCHANGED <<limVars, restVars, names, workers, deepInspect, cancelled,
                   chanVars, prodPc, prodIdx, wres, ipc, ires, closerPc,
                   stats, probed, checked, sent>>

\* case BucketExists, BucketForbidden: atomic.AddInt64(&s.stats.Found, 1)
AddFound(w) ==
    /\ wpc[w] = "addFound"
    /\ AddThen(w, "found", IF wres[w].probe = BucketExists
                           THEN "addPublic" ELSE "addPrivate")

\* case BucketExists: atomic.AddInt64(&s.stats.Public, 1)
AddPublic(w) ==
    /\ wpc[w] = "addPublic"
    /\ AddThen(w, "public", AfterSwitch(wres[w].probe, deepInspect))

\* case BucketForbidden: atomic.AddInt64(&s.stats.Private, 1)
AddPrivate(w) ==
    /\ wpc[w] = "addPrivate"
    /\ AddThen(w, "private", AfterSwitch(wres[w].probe, deepInspect))

\* case BucketError: atomic.AddInt64(&s.stats.Errors, 1)
AddErrors(w) ==
    /\ wpc[w] = "addErrors"
    /\ AddThen(w, "errors", AfterSwitch(wres[w].probe, deepInspect))

\* Stats(): s.mu.RLock(), and Total read
StatsLock ==
    /\ snapPc = "idle"
    /\ snap' = [ZeroStats EXCEPT !.total = stats.total]
    /\ snapPc' = LoadOrder[1]
    /\ UNCHANGED <<limVars, scanVars, valVars, engVars, driverVars, ckVars,
                   inspVars, recVars, rescans, ckTokens, reportVars>>

\* Stats(): the next atomic.LoadInt64
StatsLoad ==
    /\ \E k \in 1..Len(LoadOrder) :
          /\ snapPc = LoadOrder[k]
          /\ snap' = [snap EXCEPT ![LoadOrder[k]] = stats[LoadOrder[k]]]
          /\ snapPc' = AfterLoad(k)
    /\ UNCHANGED <<limVars, scanVars, valVars, engVars, driverVars, ckVars,
                   inspVars, recVars, rescans, ckTokens, reportVars>>

\* Stats() returns the value it built
StatsReturn ==
    /\ snapPc = "ret"
    /\ snapPc' = "idle"
    /\ snap' = ZeroStats
    /\ UNCHANGED <<limVars, scanVars, valVars, engVars, driverVars, ckVars,
                   inspVars, recVars, rescans, ckTokens, reportVars>>

StatsInit ==
    /\ \E list \in NameLists, n \in WorkerIds : ScanStart(list, n, FALSE)
    /\ LimIdle
    /\ ValidatorIdle /\ EngineIdle /\ DriverIdle /\ CheckIdle /\ InspectIdle
    /\ RecordIdle
    /\ snapPc = "idle" /\ snap = ZeroStats
    /\ rescans = 0 /\ ckTokens = 0
    /\ ReportIdle

StatsNext ==
    \/ ProducerSend \/ ProducerFinish
    \/ \E w \in WorkerIds : WorkerRecv(w)
    \/ \E w \in WorkerIds : WorkerNamesClosed(w)
    \/ \E w \in WorkerIds : CheckWaitOk(w)
    \/ \E w \in WorkerIds : CheckReturns(w)
    \/ \E w \in WorkerIds : AddNotFound(w)
    \/ \E w \in WorkerIds : AddFound(w)
    \/ \E w \in WorkerIds : AddPublic(w)
    \/ \E w \in WorkerIds : AddPrivate(w)
    \/ \E w \in WorkerIds : AddErrors(w)
    \/ \E w \in WorkerIds : WorkerEmit(w)
    \/ CloserCloseInspect \/ CloserCloseResults
    \/ Consume
    \/ StatsLock
    \/ StatsLoad
    \/ StatsReturn

SpecStats == StatsInit /\ [][StatsNext]_vars

\* the relations between the counters
Consistent(st) ==
    /\ st.public + st.private <= st.found
    /\ st.found + st.errors + st.notFound <= st.scanned
    /\ st.scanned <= st.total

\* a probe worker is running
WorkersRunning == \E w \in WorkerIds : wpc[w] \notin {"done", "off"}

\* C36, as claimed: every snapshot Stats() returns while probe workers are
\* running satisfies public + private <= found and
\* found + errors + not_found <= scanned <= total.
C36_SnapshotsConsistent ==
    (snapPc = "ret" /\ WorkersRunning) => Consistent(snap)

\* C36, amended: the counters themselves satisfy the two relations at every
\* instant, and every field of a snapshot Stats() returns is a value its
\* counter had during the call: it is at most the counter's value now, and
\* scanned <= total holds in the snapshot.
C36_CountersConsistent ==
    /\ Consistent(stats)
    /\ snapPc = "ret" =>
          /\ \A k \in 1..Len(LoadOrder) :
                snap[LoadOrder[k]] <= stats[LoadOrder[k]]
          /\ snap.total = stats.total
          /\ snap.scanned <= snap.total

\* a snapshot returned while a worker runs, with found loaded after a name
\* was counted that scanned, loaded before, does not show
C36_Witness ==
    /\ snapPc = "ret"
    /\ WorkersRunning
    /\ snap.scanned = 0
    /\ snap.found = 1

(***************************************************************************)
(* Claims about the token bucket's burst                                   *)
(***************************************************************************)
\* C37: for every ceiling New accepts, fractional ones below 1 included, and
\* after any sequence of RecordResponse calls, the bucket's burst is at least
\* 1, so that Wait with a ctx that is never cancelled returns without error.
C37_BurstAtLeastOne ==
    /\ limBurst >= 1
    /\ WaitError(limBurst, FALSE) = ""

(***************************************************************************)
(* A second Scan on the same Scanner.  Scan makes a new namesChan and      *)
(* resets the statistics; s.inspectChan and s.resultsChan are the ones New *)
(* made, which the first scan's closer has closed.                         *)
(***************************************************************************)
\* most further Scan calls on one Scanner
MaxRescans == 1

\* Scan(ctx, names) is called again once the previous scan is complete
ScanAgain ==
    /\ AllExited /\ resultsClosed
    /\ rescans < MaxRescans
    /\ rescans' = rescans + 1
    /\ \E list \in NameLists : 
          /\ names' = list
          /\ stats' = [ZeroStats EXCEPT !.total = Len(list)]
    /\ cancelled' = FALSE
    /\ namesChan' = <<>> /\ namesClosed' = FALSE
    /\ prodPc' = "feed" /\ prodIdx' = 1
    /\ wpc' = [w \in WorkerIds |-> IF w <= workers THEN "recv" ELSE "off"]
    /\ wres' = [w \in WorkerIds |-> NoResult]
    /\ ipc' = [i \in InspectorIds |-> IF deepInspect THEN "recv" ELSE "off"]
    /\ ires' = [i \in InspectorIds |-> NoResult]
    /\ closerPc' = "waitWorkers"
    /\ probed' = EmptyBag /\ checked' = EmptyBag /\ sent' = EmptyBag
    /\ UNCHANGED <<limVars, valVars, engVars, driverVars, ckVars, inspVars,
                   recVars, snapVars, ckTokens, reportVars, workers, deepInspect,
                   inspectChan,
                   inspectClosed, resultsChan, resultsClosed>>

\* the closer's wait is over and the channel it closes next is closed already
ClosePanics ==
    \/ closerPc = "waitWorkers" /\ ProbeWorkersDone /\ inspectClosed
    \/ closerPc = "waitInspectors" /\ InspectWorkersDone /\ resultsClosed

\* a send on, or a close of, a closed channel panics: the process is gone
Panic ==
    /\ SendOnClosed \/ ClosePanics
    /\ prodPc' = "panic"
    /\ wpc' = [w \in WorkerIds |-> "panic"]
    /\ ipc' = [i \in InspectorIds |-> "panic"]
    /\ closerPc' = "panic"
    /\ namesChan' = <<>> /\ inspectChan' = <<>> /\ resultsChan' = <<>>
    /\ UNCHANGED <<limVars, restVars, names, workers, deepInspect, cancelled,
                   namesClosed, inspectClosed, resultsClosed, prodIdx, wres,
                   ires, stats, probed, checked, sent>>

RescanNext ==
    \/ Cancel
    \/ ProducerSend \/ ProducerCancelled \/ ProducerFinish
    \/ \E w \in WorkerIds : WorkerRecv(w)
    \/ \E w \in WorkerIds : WorkerNamesClosed(w)
    \/ \E w \in WorkerIds : WorkerCancelled(w)
    \/ \E w \in WorkerIds : CheckWaitOk(w)
    \/ \E w \in WorkerIds : CheckWaitCancelled(w)
    \/ \E w \in WorkerIds : CheckResponse(w)
    \/ \E w \in WorkerIds : CheckAborted(w)
    \/ \E w \in WorkerIds : WorkerEnqueue(w)
    \/ \E w \in WorkerIds : WorkerEnqueueCancelled(w)
    \/ \E w \in WorkerIds : WorkerEmit(w)
    \/ \E w \in WorkerIds : WorkerEmitCancelled(w)
    \/ \E i \in InspectorIds : InspectorRecv(i)
    \/ \E i \in InspectorIds : InspectorChanClosed(i)
    \/ \E i \in InspectorIds : InspectorCancelled(i)
    \/ \E i \in InspectorIds : InspectorInspect(i)
    \/ \E i \in InspectorIds : InspectorEmit(i)
    \/ \E i \in InspectorIds : InspectorEmitCancelled(i)
    \/ CloserCloseInspect \/ CloserCloseResults
    \/ Consume
    \/ ScanAgain
    \/ Panic

SpecRescan == Init /\ [][RescanNext]_vars

\* the process has panicked
Panicked == closerPc = "panic"

\* C38: a Scan called on a Scanner whose previous scan is complete starts a
\* fresh scan: the statistics are reset, and the scan runs and closes its
\* results channel with no send on, and no second close of, a closed channel.
C38_SecondScanIsFresh ==
    rescans > 0 =>
        /\ stats.total = Len(names)
        /\ stats.scanned <= stats.total
        /\ ~SendOnClosed
        /\ ~ClosePanics
        /\ ~Panicked

(***************************************************************************)
(* Claims about requests and tokens                                        *)
(***************************************************************************)
\* requests Check has handed to client.Do
RequestsSent == Len(ckSeen)

\* C39: every request Check sends, each retry included, comes after a
\* limiter.Wait of its own that returned nil: at all times the requests sent
\* are at most the tokens granted, and a request about to be sent holds a
\* token no earlier request used.
C39_RequestsNeverExceedTokens ==
    /\ RequestsSent <= ckTokens
    /\ ckPc = "do" => ckTokens = RequestsSent + 1
    /\ ckTokens <= MaxRetries + 1

\* three requests, the second after a transport error and the third after a
\* 5xx answer, on three tokens
C39_Witness ==
    /\ ckPc = "done"
    /\ ckSeen = <<0, 500, 200>>
    /\ ckTokens = 3

(***************************************************************************)
(* output.ReportWriter: run writes every result the scanner streams, then  *)
(* Close flushes the JSON report                                           *)
(***************************************************************************)
\* most results written to one report
MaxReportResults == 4

\* the classifications the scanner streams (NotFound is never sent)
StreamedClasses == {BucketExists, BucketForbidden, BucketError}

\* number of results with the classification
CountClass(results, class) ==
    Cardinality({k \in 1..Len(results) : results[k] = class})

\* the counts flushJSON puts into the Report
flushJSON(results) ==
    [TotalFound |-> Len(results),
     PublicBuckets |-> CountClass(results, BucketExists),
     PrivateBuckets |-> CountClass(results, BucketForbidden)]

\* ReportWriter.WriteResult, called by run for a result read from the scan
WriteResult ==
    /\ repPc = "open"
    /\ Len(repResults) < MaxReportResults
    /\ \E class \in StreamedClasses : repResults' = Append(repResults, class)
    /\ UNCHANGED <<limVars, scanVars, valVars, engVars, driverVars, ckVars,
                   inspVars, recVars, snapVars, rescans, ckTokens, repPc,
                   report>>

\* ReportWriter.Close: Flush, which encodes the report
Flush ==
    /\ repPc = "open"
    /\ report' = flushJSON(repResults)
    /\ repPc' = "flushed"
    /\ UNCHANGED <<limVars, scanVars, valVars, engVars, driverVars, ckVars,
                   inspVars, recVars, snapVars, rescans, ckTokens, repResults>>

ReportInit ==
    /\ LimIdle
    /\ ScanIdle
    /\ ValidatorIdle /\ EngineIdle /\ DriverIdle /\ CheckIdle /\ InspectIdle
    /\ RecordIdle
    /\ SnapIdle /\ rescans = 0 /\ ckTokens = 0
    /\ repPc = "open" /\ repResults = <<>> /\ report = NoReport

ReportNext ==
    \/ WriteResult
    \/ Flush

SpecReport == ReportInit /\ [][ReportNext]_vars

\* C40: in the JSON report written for any sequence of streamed results,
\* Error results included, total_found equals public_buckets +
\* private_buckets and equals the number of results classified Exists or
\* Forbidden.
C40_TotalFoundIsPublicPlusPrivate ==
    repPc = "flushed" =>
        /\ report.TotalFound = report.PublicBuckets + report.PrivateBuckets
        /\ report.TotalFound = CountClass(repResults, BucketExists)
                                 + CountClass(repResults, BucketForbidden)

=============================================================================
